---- MODULE Spec2Model ----
(***************************************************************************)
(* Model of the pocket-money plugin (src/main.py): the ledger store        *)
(* (PocketMoneyManager), the inventory store (BackpackManager), the        *)
(* commendation tracker (ThankLetterManager), the isolation proxy          *)
(* (UserIsolationManager) and the handlers of PocketMoneyPlugin.           *)
(*                                                                         *)
(* Conventions.                                                            *)
(*  - Money is counted in whole units of 0.01, the grain the source keeps  *)
(*    balances at with round(x, 2); amounts are finite numbers (the text   *)
(*    "nan"/"inf" that float() would also accept is outside the inputs).   *)
(*  - Timestamps of records and items are left out; the calendar day that  *)
(*    the commendation tracker reads is the variable today.                *)
(*  - The real stores are kept twice, as the object in memory and as the   *)
(*    file it saves itself to (disk); for an isolated store one value      *)
(*    stands for both, and the file outlives the cache entry (iso_files    *)
(*    vs managers_cache).                                                  *)
(***************************************************************************)
EXTENDS Integers, Sequences, FiniteSets, TLC

VARIABLES
    manager,                \* PocketMoneyPlugin.manager.data (the real ledger)
    backpack_manager,       \* PocketMoneyPlugin.backpack_manager.data
    thank_manager,          \* PocketMoneyPlugin.thank_manager.data
    today,                  \* the calendar day datetime.now() falls on
    blacklist,              \* UserIsolationManager.blacklist (a list)
    managers_cache,         \* keys of UserIsolationManager._managers_cache
    iso_files,              \* isolation/<user>/pocket_money.json, backpack.json
    processed_message_ids,  \* PocketMoneyPlugin.processed_message_ids
    disk,                   \* the configuration and the files of the data directory
    suspended,              \* the on_llm_resp handlers that wait at their await
    last,                   \* the call that made the last step, and its result
    ghost,                  \* what has happened so far (history, not program state)
    steps                   \* number of calls made so far

vars == <<manager, backpack_manager, thank_manager, today, blacklist,
          managers_cache, iso_files, processed_message_ids, disk,
          suspended, last, ghost, steps>>

-----------------------------------------------------------------------------
(* Bounds of the model *)

\* max_records of the real ledger (config value, 100 by default)
MaxRecords == 2
\* max_records of an isolated ledger (50 in the source)
IsoMaxRecords == 2
\* most calls in one behaviour
MaxSteps == 5

Users == {"u1", "x", "y"}
NoUser == ""
WithdrawalIds == {"w1", "w2"}

-----------------------------------------------------------------------------
(* PocketMoneyManager *)

\* round(x, 2) on amounts counted in units of 0.01
Round2(x) == x

Abs(x) == IF x < 0 THEN 0 - x ELSE x

Record(type, amount, reason, operator_id) ==
    [type |-> type, amount |-> amount, reason |-> reason,
     operator_id |-> operator_id]

\* records[-max_records:] when the history is longer than max_records
LimitRecords(records, max_records) ==
    IF Len(records) > max_records
    THEN SubSeq(records, Len(records) - max_records + 1, Len(records))
    ELSE records

\* _load_data on a missing file
NewLedger(initial_balance) ==
    [balance |-> initial_balance, records |-> <<>>, savings_balance |-> 0,
     pending_withdrawals |-> <<>>, notes |-> <<>>]

Result(ok, l) == [ok |-> ok, l |-> l]

add_income(l, max_records, amount, reason, operator_id) ==
    IF amount <= 0 THEN Result(FALSE, l)
    ELSE Result(TRUE,
        [l EXCEPT !.balance = Round2(@ + amount),
                  !.records = LimitRecords(
                      Append(@, Record("income", amount, reason, operator_id)),
                      max_records)])

\* an expense that charges what is there when the amount exceeds the balance
add_expense_floor_out(l, max_records, amount, reason, operator_id) ==
    IF amount <= 0 \/ l.balance <= 0 THEN Result(FALSE, l)
    ELSE LET charged == IF amount > l.balance THEN l.balance ELSE amount
         IN  Result(TRUE,
                 [l EXCEPT !.balance = Round2(@ - charged),
                           !.records = LimitRecords(
                               Append(@, Record("expense", charged, reason,
                                                operator_id)),
                               max_records)])

add_expense(l, max_records, amount, reason, operator_id) ==
    IF amount <= 0 THEN Result(FALSE, l)
    ELSE IF amount > l.balance THEN Result(FALSE, l)
    ELSE Result(TRUE,
        [l EXCEPT !.balance = Round2(@ - amount),
                  !.records = LimitRecords(
                      Append(@, Record("expense", amount, reason, operator_id)),
                      max_records)])

set_balance(l, max_records, amount, reason, operator_id) ==
    LET diff == amount - l.balance
        record_type == IF diff >= 0 THEN "income" ELSE "expense"
    IN  Result(TRUE,
        [l EXCEPT !.balance = Round2(amount),
                  !.records = LimitRecords(
                      Append(@, Record(record_type, Abs(diff),
                                       "[adjust] " \o reason, operator_id)),
                      max_records)])

\* a deposit that debits the balance and credits nothing
deposit_to_savings_one_sided(l, amount, reason, operator_id) ==
    IF amount <= 0 \/ amount > l.balance THEN Result(FALSE, l)
    ELSE Result(TRUE,
        [l EXCEPT !.balance = Round2(@ - amount),
                  !.records = Append(@, Record("expense", amount,
                                  "[to savings] " \o reason, operator_id))])

deposit_to_savings(l, amount, reason, operator_id) ==
    IF amount <= 0 \/ amount > l.balance THEN Result(FALSE, l)
    ELSE Result(TRUE,
        [l EXCEPT !.balance = Round2(@ - amount),
                  !.savings_balance = Round2(@ + amount),
                  !.records = Append(@, Record("expense", amount,
                                  "[to savings] " \o reason, operator_id))])

withdraw_from_savings(l, amount, reason, operator_id) ==
    IF amount <= 0 \/ amount > l.savings_balance THEN Result(FALSE, l)
    ELSE Result(TRUE,
        [l EXCEPT !.savings_balance = Round2(@ - amount),
                  !.balance = Round2(@ + amount),
                  !.records = Append(@, Record("income", amount,
                                  "[from savings] " \o reason, operator_id))])

\* application_id is f"{int(time.time())}{random.randint(100, 999)}": the
\* clock and the random number are the environment's, so id is an input
apply_withdrawal(l, amount, reason, source_info, id) ==
    IF amount <= 0 \/ amount > l.savings_balance THEN Result(FALSE, l)
    ELSE Result(TRUE,
        [l EXCEPT !.pending_withdrawals = Append(@,
            [id |-> id, amount |-> amount, reason |-> reason,
             status |-> "pending", source_info |-> source_info])])

\* index of the first request the loop of approve/reject stops at, 0 if none
FirstPending(l, application_id) ==
    LET hits == {i \in 1..Len(l.pending_withdrawals) :
                    /\ l.pending_withdrawals[i].id = application_id
                    /\ l.pending_withdrawals[i].status = "pending"}
    IN  IF hits = {} THEN 0
        ELSE CHOOSE i \in hits : \A j \in hits : i <= j

approve_withdrawal(l, application_id, operator_id) ==
    LET i == FirstPending(l, application_id)
    IN  IF i = 0 THEN Result(FALSE, l)
        ELSE LET w == l.pending_withdrawals[i]
             IN  IF w.amount > l.savings_balance THEN Result(FALSE, l)
                 ELSE Result(TRUE,
                     withdraw_from_savings(
                         [l EXCEPT !.pending_withdrawals[i].status = "approved"],
                         w.amount, "[withdrawal] " \o w.reason, operator_id).l)

\* reject_withdrawal without the test of the status: the first request with
\* the id is rejected whatever its status
reject_withdrawal_any_status(l, application_id, reject_reason, operator_id) ==
    LET hits == {i \in 1..Len(l.pending_withdrawals) :
                    l.pending_withdrawals[i].id = application_id}
    IN  IF hits = {} THEN Result(FALSE, l)
        ELSE Result(TRUE,
            [l EXCEPT !.pending_withdrawals[CHOOSE i \in hits :
                          \A j \in hits : i <= j].status = "rejected"])

reject_withdrawal(l, application_id, reject_reason, operator_id) ==
    LET i == FirstPending(l, application_id)
    IN  IF i = 0 THEN Result(FALSE, l)
        ELSE Result(TRUE,
            [l EXCEPT !.pending_withdrawals[i].status = "rejected"])

-----------------------------------------------------------------------------
(* BackpackManager *)

\* An item name is a string of characters; the characters that matter to
\* the matching are lower-case letters, upper-case letters and the space.
Lower(c) == IF c = "A" THEN "a" ELSE IF c = "B" THEN "b" ELSE c

RECURSIVE LStrip(_)
LStrip(s) == IF s # <<>> /\ Head(s) = " " THEN LStrip(Tail(s)) ELSE s

RECURSIVE RStrip(_)
RStrip(s) ==
    IF s # <<>> /\ s[Len(s)] = " " THEN RStrip(SubSeq(s, 1, Len(s) - 1)) ELSE s

\* str.strip()
Strip(s) == LStrip(RStrip(s))

IsNotSpace(c) == c # " "

\* name.strip().lower().replace(" ", "")
Normalize(name) ==
    LET stripped == Strip(name)
        lowered == [i \in 1..Len(stripped) |-> Lower(stripped[i])]
    IN  SelectSeq(lowered, IsNotSpace)

\* notes[-max_entries:] of Python: the last max_entries notes for a positive
\* max_entries, the whole list for 0 (-0 is 0), and the list without its
\* first -max_entries notes for a negative one
LastNotes(notes, max_entries) ==
    IF max_entries > 0
    THEN SubSeq(notes, Len(notes) - max_entries + 1, Len(notes))
    ELSE SubSeq(notes, 1 - max_entries, Len(notes))

\* PocketMoneyManager.add_note, lines 668-693; content is a string of
\* characters
add_note(l, content, max_entries) ==
    LET stripped == Strip(content)
        notes == Append(l.notes, stripped)
    IN  IF stripped = <<>> THEN Result(FALSE, l)
        ELSE Result(TRUE,
                 [l EXCEPT !.notes = IF Len(notes) > max_entries
                                     THEN LastNotes(notes, max_entries)
                                     ELSE notes])

\* PocketMoneyManager.delete_note, lines 712-733
delete_note(l, index) ==
    LET idx == index - 1
    IN  IF l.notes = <<>> THEN Result(FALSE, l)
        ELSE IF idx < 0 \/ idx >= Len(l.notes) THEN Result(FALSE, l)
        ELSE Result(TRUE,
                 [l EXCEPT !.notes = SubSeq(@, 1, idx)
                                     \o SubSeq(@, idx + 2, Len(@))])

\* PocketMoneyManager.clear_notes, lines 701-706
clear_notes(l) == Result(TRUE, [l EXCEPT !.notes = <<>>])

NewBackpack == [shared_items |-> <<>>, user_slots |-> [u \in Users |-> <<>>]]

InvResult(ok, b) == [ok |-> ok, b |-> b]

\* a capacity test that lets one item too many in
is_shared_full_above(b, max_shared_slots) ==
    Len(b.shared_items) > max_shared_slots

is_shared_full(b, max_shared_slots) == Len(b.shared_items) >= max_shared_slots

add_shared_item(b, max_shared_slots, name, description) ==
    IF is_shared_full(b, max_shared_slots) THEN InvResult(FALSE, b)
    ELSE InvResult(TRUE,
        [b EXCEPT !.shared_items =
            Append(@, [name |-> name, description |-> description])])

\* a search that only takes the item whose name is the query as written
FirstMatch_exact(items, name) ==
    LET hits == {i \in 1..Len(items) : items[i].name = name}
    IN  IF hits = {} THEN 0
        ELSE CHOOSE i \in hits : \A j \in hits : i <= j

\* index of the first item the loop of use_shared_item/use_user_item pops
FirstMatch(items, name) ==
    LET hits == {i \in 1..Len(items) :
                    \/ Normalize(items[i].name) = Normalize(name)
                    \/ items[i].name = name}
    IN  IF hits = {} THEN 0
        ELSE CHOOSE i \in hits : \A j \in hits : i <= j

\* list.pop(i), i counted from 1
Pop(items, i) == SubSeq(items, 1, i - 1) \o SubSeq(items, i + 1, Len(items))

use_shared_item(b, name) ==
    LET i == FirstMatch(b.shared_items, name)
    IN  IF i = 0 THEN InvResult(FALSE, b)
        ELSE InvResult(TRUE, [b EXCEPT !.shared_items = Pop(@, i)])

clear_shared_items(b) == [b EXCEPT !.shared_items = <<>>]

is_user_slots_full(b, max_user_slots, user_id) ==
    Len(b.user_slots[user_id]) >= max_user_slots

add_user_gift(b, max_user_slots, user_id, name, description, from_who) ==
    IF is_user_slots_full(b, max_user_slots, user_id) THEN InvResult(FALSE, b)
    ELSE InvResult(TRUE,
        [b EXCEPT !.user_slots[user_id] =
            Append(@, [name |-> name, description |-> description,
                       from |-> from_who])])

use_user_item(b, user_id, name) ==
    LET i == FirstMatch(b.user_slots[user_id], name)
    IN  IF i = 0 THEN InvResult(FALSE, b)
        ELSE InvResult(TRUE, [b EXCEPT !.user_slots[user_id] = Pop(@, i)])

clear_user_items(b, user_id) == [b EXCEPT !.user_slots[user_id] = <<>>]

-----------------------------------------------------------------------------
(* ThankLetterManager *)

\* timedelta(days=7) in _check_and_reset_daily
RetentionDays == 7

\* today_date "" of a fresh tracker
NoDate == 0

NewThankData ==
    [daily_senders |-> <<>>, ranking |-> <<>>, today_bonus |-> 0,
     today_date |-> NoDate, total_bonus |-> 0]

\* daily_senders is a dict date -> list, kept here as the list of its
\* entries [date, senders]; ranking is a dict key -> count, kept as the
\* list of its entries [sender_id, sender_name, count] in insertion order
SendersOn(d, day) ==
    LET hits == {i \in 1..Len(d.daily_senders) : d.daily_senders[i].date = day}
    IN  IF hits = {} THEN <<>>
        ELSE d.daily_senders[CHOOSE i \in hits : TRUE].senders

InSeq(x, s) == \E i \in 1..Len(s) : s[i] = x

\* a day change that keeps every entry of daily_senders
check_and_reset_daily_keep_all(d, now) ==
    IF d.today_date # now
    THEN [d EXCEPT !.today_date = now, !.today_bonus = 0]
    ELSE d

\* lines 208-219
check_and_reset_daily(d, now) ==
    IF d.today_date # now
    THEN LET cutoff == now - RetentionDays
             Keep(e) == e.date >= cutoff
         IN  [d EXCEPT !.today_date = now, !.today_bonus = 0,
                       !.daily_senders = SelectSeq(@, Keep)]
    ELSE d
\* a gate that lets every letter through
can_send_today_always(d, now, sender_id) == TRUE

can_send_today(d, now, sender_id) ==
    ~InSeq(sender_id, SendersOn(check_and_reset_daily(d, now), now))

ThankResult(ok, d) == [ok |-> ok, d |-> d]

\* a search that finds no old key
OldKey_none(ranking, sender_id) == 0

\* index of the first ranking key that starts with sender_id|, 0 if none
\* (user ids hold no "|", so the keys that start with sender_id| are the
\* keys whose id part is sender_id)
OldKey(ranking, sender_id) ==
    LET hits == {i \in 1..Len(ranking) : ranking[i].sender_id = sender_id}
    IN  IF hits = {} THEN 0
        ELSE CHOOSE i \in hits : \A j \in hits : i <= j

record_thank_letter(d, now, sender_id, sender_name, amount) ==
    LET d1 == check_and_reset_daily(d, now)
    IN  IF ~can_send_today(d1, now, sender_id) THEN ThankResult(FALSE, d1)
        ELSE
        LET hasDay == \E i \in 1..Len(d1.daily_senders) :
                          d1.daily_senders[i].date = now
            days == IF hasDay THEN d1.daily_senders
                    ELSE Append(d1.daily_senders,
                                [date |-> now, senders |-> <<>>])
            senders == [i \in 1..Len(days) |->
                          IF days[i].date = now
                          THEN [days[i] EXCEPT !.senders = Append(@, sender_id)]
                          ELSE days[i]]
            k == OldKey(d1.ranking, sender_id)
            ranking ==
                IF k # 0 /\ d1.ranking[k].sender_name # sender_name
                THEN Append(Pop(d1.ranking, k),
                            [sender_id |-> sender_id,
                             sender_name |-> sender_name,
                             count |-> d1.ranking[k].count + 1])
                ELSE IF k # 0
                THEN [d1.ranking EXCEPT ![k].count = @ + 1]
                ELSE Append(d1.ranking,
                            [sender_id |-> sender_id,
                             sender_name |-> sender_name, count |-> 1])
        IN  ThankResult(TRUE,
                [d1 EXCEPT !.daily_senders = senders, !.ranking = ranking,
                           !.today_bonus = @ + amount,
                           !.total_bonus = @ + amount])

get_today_bonus(d, now) == check_and_reset_daily(d, now)

-----------------------------------------------------------------------------
(* UserIsolationManager *)

\* BackpackManager(data_dir, max_shared_slots, max_user_slots) of the real
\* store (config values, 10 and 3 by default)
MaxSharedSlots == 2
MaxUserSlots == 2
\* BackpackManager(user_dir, 10, 3) of an isolated store
IsoSharedSlots == 2
IsoUserSlots == 2

\* An isolated user's directory before its first access
NoIsoFile == [exists |-> FALSE, money |-> NewLedger(0), backpack |-> NewBackpack]

\* The stores a handler works on: h.m and h.b are the real ledger and
\* inventory, h.iso the isolated users' files, h.cache the cached isolated
\* managers, h.bl the blacklist, h.text the handler's cleaned_text and h.exc
\* tells that an exception has ended the handler.
Stores(m, b, iso, cache, bl, text) ==
    [m |-> m, b |-> b, iso |-> iso, cache |-> cache, bl |-> bl,
     text |-> text, exc |-> FALSE]

is_blacklisted(bl, user_id) == InSeq(user_id, bl)

\* an insertion that does not look for the user first
add_to_blacklist_unchecked(bl, user_id) ==
    [ok |-> TRUE, bl |-> Append(bl, user_id)]

\* lines 50-56
add_to_blacklist(bl, user_id) ==
    IF ~InSeq(user_id, bl) THEN [ok |-> TRUE, bl |-> Append(bl, user_id)]
    ELSE [ok |-> FALSE, bl |-> bl]

\* The cached managers are dropped; the user's directory is left in place
remove_from_blacklist(bl, cache, user_id) ==
    IF InSeq(user_id, bl)
    THEN LET i == CHOOSE k \in 1..Len(bl) :
                      bl[k] = user_id /\ \A j \in 1..(k - 1) : bl[j] # user_id
         IN  [ok |-> TRUE, bl |-> Pop(bl, i), cache |-> cache \ {user_id}]
    ELSE [ok |-> FALSE, bl |-> bl, cache |-> cache]

\* a resolve that writes the money file from the real balance each time
get_isolated_managers_reseeding(h, user_id, real_is_none) ==
    [h EXCEPT !.iso[user_id].exists = TRUE,
              !.iso[user_id].money = NewLedger(h.m.balance),
              !.cache = @ \cup {user_id}]

\* real_is_none: the caller passed None for real_money_mgr, so reading the
\* real balance to seed a missing file raises AttributeError
get_isolated_managers(h, user_id, real_is_none) ==
    IF user_id \in h.cache THEN h
    ELSE IF ~h.iso[user_id].exists
    THEN IF real_is_none THEN [h EXCEPT !.exc = TRUE]
         ELSE [h EXCEPT !.iso[user_id].exists = TRUE,
                        !.iso[user_id].money = NewLedger(h.m.balance),
                        !.cache = @ \cup {user_id}]
    ELSE [h EXCEPT !.cache = @ \cup {user_id}]

\* an expense that is not replayed anywhere
sync_expense_to_none(h, users, amount, reason, operator_id) == h

RECURSIVE sync_expense_to_all(_, _, _, _, _)
sync_expense_to_all(h, users, amount, reason, operator_id) ==
    IF users = <<>> \/ h.exc THEN h
    ELSE LET u == Head(users)
             h1 == get_isolated_managers(h, u, FALSE)
             h2 == IF amount <= h1.iso[u].money.balance
                   THEN [h1 EXCEPT !.iso[u].money =
                            add_expense(@, IsoMaxRecords, amount, reason,
                                        operator_id).l]
                   ELSE h1
         IN  sync_expense_to_all(h2, Tail(users), amount, reason, operator_id)

RECURSIVE sync_income_to_all(_, _, _, _, _)
sync_income_to_all(h, users, amount, reason, operator_id) ==
    IF users = <<>> \/ h.exc THEN h
    ELSE LET u == Head(users)
             h1 == get_isolated_managers(h, u, FALSE)
             h2 == [h1 EXCEPT !.iso[u].money =
                        add_income(@, IsoMaxRecords, amount, reason,
                                   operator_id).l]
         IN  sync_income_to_all(h2, Tail(users), amount, reason, operator_id)

\* a set-balance that is not replayed anywhere
sync_set_balance_to_none(h, users, new_balance, reason, operator_id) == h

RECURSIVE sync_set_balance_to_all(_, _, _, _, _)
sync_set_balance_to_all(h, users, new_balance, reason, operator_id) ==
    IF users = <<>> \/ h.exc THEN h
    ELSE LET u == Head(users)
             h1 == get_isolated_managers(h, u, FALSE)
             h2 == [h1 EXCEPT !.iso[u].money =
                        set_balance(@, IsoMaxRecords, new_balance, reason,
                                    operator_id).l]
         IN  sync_set_balance_to_all(h2, Tail(users), new_balance, reason,
                                     operator_id)

RECURSIVE sync_store_to_all(_, _, _, _)
sync_store_to_all(h, users, item_name, item_desc) ==
    IF users = <<>> \/ h.exc THEN h
    ELSE LET u == Head(users)
             h1 == get_isolated_managers(h, u, TRUE)
             h2 == IF h1.exc THEN h1
                   ELSE [h1 EXCEPT !.iso[u].backpack =
                            add_shared_item(@, IsoSharedSlots, item_name,
                                            item_desc).b]
         IN  sync_store_to_all(h2, Tail(users), item_name, item_desc)

RECURSIVE sync_use_to_all(_, _, _)
sync_use_to_all(h, users, item_name) ==
    IF users = <<>> \/ h.exc THEN h
    ELSE LET u == Head(users)
             h1 == get_isolated_managers(h, u, TRUE)
             h2 == IF h1.exc THEN h1
                   ELSE [h1 EXCEPT !.iso[u].backpack =
                            use_shared_item(@, item_name).b]
         IN  sync_use_to_all(h2, Tail(users), item_name)

-----------------------------------------------------------------------------
(* PocketMoneyPlugin.on_llm_resp *)

\* A response text is the sequence of its bracketed spans (the text between
\* them plays no part).  For a span, kw is the set of tag kinds whose block
\* pattern matches it (the pattern of a kind matches any bracketed span that
\* holds one of the kind's keywords, in any letter case and in any place,
\* a field's text included), amount is what the amount pattern of the
\* span's spend, refund or apply-withdraw kind extracts from it and name
\* what the name pattern of its store, use, use-gift or gift kind extracts
\* (the field patterns want the keyword as written, followed by a colon, so
\* a keyword met in another field's text gives them nothing).
Kinds == {"spend", "store", "usegift", "use", "gift", "refund", "note",
          "withdraw"}
\* the amount pattern found no number
NoAmount == 0 - 1
\* the name pattern found no name (a name it finds has at least one
\* character, which may be a space: the handler strips it afterwards)
NoName == <<>>
\* the reason patterns found no reason
NoReason == ""

Span(kw, amount, name, reason) ==
    [kw |-> kw, amount |-> amount, name |-> name, reason |-> reason]

\* pattern.finditer(cleaned_text)
Matches(text, kind) == SelectSeq(text, LAMBDA sp : kind \in sp.kw)
\* pattern.sub('', cleaned_text)
Sub(text, kind) == SelectSeq(text, LAMBDA sp : kind \notin sp.kw)

\* The acting user's stores, as _get_managers_for_user returned them
Money(h, user_id, is_isolated) ==
    IF is_isolated THEN h.iso[user_id].money ELSE h.m
\* a write that always lands in the real ledger
WithMoney_real(h, user_id, is_isolated, l) == [h EXCEPT !.m = l]

WithMoney(h, user_id, is_isolated, l) ==
    IF is_isolated THEN [h EXCEPT !.iso[user_id].money = l]
    ELSE [h EXCEPT !.m = l]
MoneyMaxRecords(is_isolated) ==
    IF is_isolated THEN IsoMaxRecords ELSE MaxRecords
Backpack(h, user_id, is_isolated) ==
    IF is_isolated THEN h.iso[user_id].backpack ELSE h.b
WithBackpack(h, user_id, is_isolated, b) ==
    IF is_isolated THEN [h EXCEPT !.iso[user_id].backpack = b]
    ELSE [h EXCEPT !.b = b]
SharedSlots(is_isolated) ==
    IF is_isolated THEN IsoSharedSlots ELSE MaxSharedSlots
UserSlots(is_isolated) ==
    IF is_isolated THEN IsoUserSlots ELSE MaxUserSlots

FallbackReason(reason, amount) ==
    reason \o " (asked " \o ToString(amount) \o ", short, all charged)"

\* a spend pass that fails closed when the amount exceeds the balance
SpendPass_fail_closed(h, user_id, is_isolated) ==
    LET spend_matches == Matches(h.text, "spend")
    IN  IF h.exc \/ spend_matches = <<>> THEN h
        ELSE
        LET h0 == [h EXCEPT !.text = Sub(@, "spend")]
            amount == spend_matches[Len(spend_matches)].amount
            r == add_expense(Money(h0, user_id, is_isolated),
                             MoneyMaxRecords(is_isolated), amount,
                             "unspecified", user_id)
            h1 == WithMoney(h0, user_id, is_isolated, r.l)
        IN  IF amount = NoAmount THEN h0
            ELSE IF r.ok /\ ~is_isolated
            THEN sync_expense_to_all(h1, h1.bl, amount, "unspecified",
                                     user_id)
            ELSE h1

\* lines 1125-1162
SpendPass(h, user_id, is_isolated) ==
    LET spend_matches == Matches(h.text, "spend")
    IN  IF h.exc \/ spend_matches = <<>> THEN h
        ELSE
        LET h0 == [h EXCEPT !.text = Sub(@, "spend")]
            spend_block == spend_matches[Len(spend_matches)]
            amount == spend_block.amount
            reason == IF spend_block.reason # NoReason
                      THEN spend_block.reason ELSE "unspecified"
            money == Money(h0, user_id, is_isolated)
            current_balance == money.balance
        IN  IF amount = NoAmount THEN h0
            ELSE IF amount <= current_balance
            THEN LET r == add_expense(money, MoneyMaxRecords(is_isolated),
                                      amount, reason, user_id)
                     h1 == WithMoney(h0, user_id, is_isolated, r.l)
                 IN  IF r.ok /\ ~is_isolated
                     THEN sync_expense_to_all(h1, h1.bl, amount, reason,
                                              user_id)
                     ELSE h1
            ELSE IF current_balance > 0
            THEN LET fallback_reason == FallbackReason(reason, amount)
                     r == add_expense(money, MoneyMaxRecords(is_isolated),
                                      current_balance, fallback_reason,
                                      user_id)
                     h1 == WithMoney(h0, user_id, is_isolated, r.l)
                 IN  IF ~is_isolated
                     THEN sync_expense_to_all(h1, h1.bl, current_balance,
                                              fallback_reason, user_id)
                     ELSE h1
            ELSE h0

\* lines 1164-1183
StorePass(h, user_id, is_isolated) ==
    LET store_matches == Matches(h.text, "store")
    IN  IF h.exc \/ store_matches = <<>> THEN h
        ELSE
        LET h0 == [h EXCEPT !.text = Sub(@, "store")]
            store_block == store_matches[Len(store_matches)]
            item_name == Strip(store_block.name)
            item_desc == "desc"
        IN  IF store_block.name = NoName THEN h0
            ELSE LET r == add_shared_item(Backpack(h0, user_id, is_isolated),
                              SharedSlots(is_isolated), item_name, item_desc)
                     h1 == WithBackpack(h0, user_id, is_isolated, r.b)
                 IN  IF r.ok /\ ~is_isolated
                     THEN sync_store_to_all(h1, h1.bl, item_name, item_desc)
                     ELSE h1

RECURSIVE UseGiftEach(_, _, _, _)
UseGiftEach(h, blocks, user_id, is_isolated) ==
    IF blocks = <<>> \/ h.exc THEN h
    ELSE LET gift_name == Strip(Head(blocks).name)
             h1 == IF Head(blocks).name = NoName THEN h
                   ELSE WithBackpack(h, user_id, is_isolated,
                            use_user_item(Backpack(h, user_id, is_isolated),
                                          user_id, gift_name).b)
         IN  UseGiftEach(h1, Tail(blocks), user_id, is_isolated)

\* lines 1185-1200
UseGiftPass(h, user_id, is_isolated) ==
    LET use_gift_matches == Matches(h.text, "usegift")
    IN  IF h.exc \/ use_gift_matches = <<>> THEN h
        ELSE UseGiftEach([h EXCEPT !.text = Sub(@, "usegift")],
                         use_gift_matches, user_id, is_isolated)

\* use_name_pattern.search(use_block), line 880: Use not followed by Gift,
\* then a colon, so the name of a use-gift tag is not found
UseName(use_block) ==
    IF "usegift" \in use_block.kw THEN NoName ELSE use_block.name

RECURSIVE UseEach(_, _, _, _)
UseEach(h, blocks, user_id, is_isolated) ==
    IF blocks = <<>> \/ h.exc THEN h
    ELSE LET item_name == Strip(UseName(Head(blocks)))
             h2 == IF UseName(Head(blocks)) = NoName \/ item_name = <<>>
                   THEN h
                   ELSE LET r == use_shared_item(
                                     Backpack(h, user_id, is_isolated),
                                     item_name)
                            h1 == WithBackpack(h, user_id, is_isolated, r.b)
                        IN  IF r.ok /\ ~is_isolated
                            THEN sync_use_to_all(h1, h1.bl, item_name)
                            ELSE h1
         IN  UseEach(h2, Tail(blocks), user_id, is_isolated)

\* lines 1202-1220
UsePass(h, user_id, is_isolated) ==
    LET use_matches == Matches(h.text, "use")
    IN  IF h.exc \/ use_matches = <<>> THEN h
        ELSE UseEach([h EXCEPT !.text = Sub(@, "use")], use_matches,
                     user_id, is_isolated)

RECURSIVE GiftEach(_, _, _, _)
GiftEach(h, blocks, user_id, is_isolated) ==
    IF blocks = <<>> \/ h.exc THEN h
    ELSE LET gift_name == Strip(Head(blocks).name)
             h1 == IF Head(blocks).name = NoName THEN h
                   ELSE WithBackpack(h, user_id, is_isolated,
                            add_user_gift(Backpack(h, user_id, is_isolated),
                                          UserSlots(is_isolated), user_id,
                                          gift_name, "desc", user_id).b)
         IN  GiftEach(h1, Tail(blocks), user_id, is_isolated)

\* lines 1222-1242
GiftPass(h, user_id, is_isolated) ==
    LET gift_matches == Matches(h.text, "gift")
    IN  IF h.exc \/ gift_matches = <<>> THEN h
        ELSE GiftEach([h EXCEPT !.text = Sub(@, "gift")], gift_matches,
                      user_id, is_isolated)

\* lines 1244-1266
RefundPass(h, user_id, is_isolated) ==
    LET refund_matches == Matches(h.text, "refund")
    IN  IF h.exc \/ refund_matches = <<>> THEN h
        ELSE
        LET h0 == [h EXCEPT !.text = Sub(@, "refund")]
            refund_block == refund_matches[Len(refund_matches)]
            refund_amount == refund_block.amount
            refund_reason == IF refund_block.reason # NoReason
                             THEN refund_block.reason ELSE "refund"
            refund_full_reason == "refund: " \o refund_reason
        IN  IF refund_amount = NoAmount THEN h0
            ELSE IF refund_amount > 0
            THEN LET r == add_income(Money(h0, user_id, is_isolated),
                              MoneyMaxRecords(is_isolated), refund_amount,
                              refund_full_reason, user_id)
                     h1 == WithMoney(h0, user_id, is_isolated, r.l)
                 IN  IF r.ok /\ ~is_isolated
                     THEN sync_income_to_all(h1, h1.bl, refund_amount,
                                             refund_full_reason, user_id)
                     ELSE h1
            ELSE h0

\* lines 1268-1271
NotePass(h) ==
    IF h.exc \/ Matches(h.text, "note") = <<>> THEN h
    ELSE [h EXCEPT !.text = Sub(@, "note")]

\* an apply-withdraw pass that files the request of any user, isolated or
\* not, with the real ledger
ApplyWithdrawPass_for_all(h, user_id, is_isolated, application_id) ==
    LET apply_withdraw_matches == Matches(h.text, "withdraw")
    IN  IF h.exc \/ apply_withdraw_matches = <<>> THEN h
        ELSE
        LET h0 == [h EXCEPT !.text = Sub(@, "withdraw")]
            amount ==
                apply_withdraw_matches[Len(apply_withdraw_matches)].amount
        IN  IF amount = NoAmount THEN h0
            ELSE [h0 EXCEPT !.m = apply_withdrawal(@, amount, "r", user_id,
                                      application_id).l]

\* lines 1273-1324; application_id is the id apply_withdrawal generates
ApplyWithdrawPass(h, user_id, is_isolated, application_id) ==
    LET apply_withdraw_matches == Matches(h.text, "withdraw")
    IN  IF h.exc \/ apply_withdraw_matches = <<>> THEN h
        ELSE
        LET h0 == [h EXCEPT !.text = Sub(@, "withdraw")]
            apply_block == apply_withdraw_matches[Len(apply_withdraw_matches)]
            amount == apply_block.amount
            reason == IF apply_block.reason # NoReason
                      THEN apply_block.reason ELSE "unspecified"
        IN  IF amount = NoAmount \/ is_isolated THEN h0
            ELSE IF amount <= h0.m.savings_balance
            THEN [h0 EXCEPT !.m = apply_withdrawal(@, amount, reason,
                                      user_id, application_id).l]
            ELSE h0

\* _get_managers_for_user, lines 959-969: the stores after the call (an
\* isolated pair is created on a blacklisted user's first access)
get_managers_for_user(h, user_id) ==
    IF is_blacklisted(h.bl, user_id)
    THEN get_isolated_managers(h, user_id, FALSE)
    ELSE h

\* the passes with the use pass ahead of the use-gift pass
ProcessResponse_use_first(h, user_id, application_id) ==
    LET is_isolated == is_blacklisted(h.bl, user_id)
        h0 == get_managers_for_user(h, user_id)
        h1 == SpendPass(h0, user_id, is_isolated)
        h2 == StorePass(h1, user_id, is_isolated)
        h3 == UsePass(h2, user_id, is_isolated)
        h4 == UseGiftPass(h3, user_id, is_isolated)
        h5 == GiftPass(h4, user_id, is_isolated)
        h6 == RefundPass(h5, user_id, is_isolated)
        h7 == NotePass(h6)
    IN  ApplyWithdrawPass(h7, user_id, is_isolated, application_id)

\* The body of on_llm_resp after the duplicate check, lines 1116-1326
ProcessResponse(h, user_id, application_id) ==
    LET is_isolated == is_blacklisted(h.bl, user_id)
        h0 == get_managers_for_user(h, user_id)
        h1 == SpendPass(h0, user_id, is_isolated)
        h2 == StorePass(h1, user_id, is_isolated)
        h3 == UseGiftPass(h2, user_id, is_isolated)
        h4 == UsePass(h3, user_id, is_isolated)
        h5 == GiftPass(h4, user_id, is_isolated)
        h6 == RefundPass(h5, user_id, is_isolated)
        h7 == NotePass(h6)
    IN  ApplyWithdrawPass(h7, user_id, is_isolated, application_id)

\* original_text[:100], the part of the text that is hashed (100 characters
\* in the source, counted here in spans)
HashPrefix == 2
Prefix(text) ==
    SubSeq(text, 1, IF Len(text) < HashPrefix THEN Len(text) ELSE HashPrefix)

\* unique_key = f"{message_id}_{response_hash}"
UniqueKey(message_id, text) == <<message_id, Prefix(text)>>

\* len(processed_message_ids) > 1000 cuts the set to 500 of its members
SeenLimit == 2
SeenKeep == 1

-----------------------------------------------------------------------------
(* State after construction (PocketMoneyPlugin.__init__ on an empty data
   directory) *)

\* config initial_balance
InitialBalances == {0, 2}

\* The record of a call: the operation or handler, the acting user, whether
\* it reported success, its amount and id arguments, for an inventory call
\* the item name and, for a response, the message identity, the text handed
\* in, the text left in the response and whether the handler ended in an
\* exception
Call(op, user, ok, amount, id) ==
    [op |-> op, user |-> user, ok |-> ok, amount |-> amount, id |-> id,
     name |-> <<>>, mid |-> 0, text |-> <<>>, out |-> <<>>, exc |-> FALSE]

\* removed: users taken off the blacklist at some time; sent: the
\* <<user, day>> pairs of the successful record_thank_letter calls;
\* recorded: the [date, amount] of these calls, in their order;
\* applied: the keys of the responses that passed the duplicate check, in
\* the order they were processed; listed: for each user the real balance at
\* the moment the user was last put on the blacklist (NoAmount: never)
NoHistory ==
    [removed |-> {}, sent |-> {}, recorded |-> <<>>, applied |-> <<>>,
     listed |-> [u \in Users |-> NoAmount]]

\* A file of the data directory: whether it exists and the data it holds
\* (json.load(json.dump(data)) gives the data back: they are numbers,
\* strings, lists and dicts with string keys)
File(exists, data) == [exists |-> exists, data |-> data]

\* a save that writes nothing
save_data_skipped(file, data) == file

\* _save_data, lines 526-530, 324-328, 202-206, and _save_blacklist, lines
\* 41-45: the file is overwritten with the data
save_data(file, data) == File(TRUE, data)

\* Every mutating method of a store ends with its save, so the file of a
\* store whose data a call has changed has been written with these data
Written(file, old, new) == IF new # old THEN save_data(file, new) ELSE file

\* savings_book.json, the file of the savings book of version 1.6
NoSavingsBook == File(FALSE, [balance |-> 0, pending_withdrawals |-> <<>>])

\* the data directory before the plugin has saved anything
NewDisk(initial_balance) ==
    [config |-> [initial_balance |-> initial_balance],
     money |-> File(FALSE, NewLedger(initial_balance)),
     backpack |-> File(FALSE, NewBackpack),
     thank |-> File(FALSE, NewThankData),
     blacklist |-> File(FALSE, <<>>),
     savings_book |-> NoSavingsBook]

\* PocketMoneyManager._load_data, lines 490-509
load_ledger(file, initial_balance) ==
    IF file.exists THEN file.data ELSE NewLedger(initial_balance)

\* _migrate_savings_data, lines 511-524, run by every construction of a
\* ledger: the balance and the requests of savings_book.json, when the file
\* is there, replace those of the ledger (the file is left where it is)
migrate_savings_data(l, old_file) ==
    IF ~old_file.exists THEN l
    ELSE LET old_data == old_file.data
             l1 == IF old_data.balance > 0
                   THEN [l EXCEPT !.savings_balance = old_data.balance]
                   ELSE l
         IN  IF old_data.pending_withdrawals # <<>>
             THEN [l1 EXCEPT !.pending_withdrawals =
                                 old_data.pending_withdrawals]
             ELSE l1

\* BackpackManager._load_data, lines 304-322
load_backpack(file) == IF file.exists THEN file.data ELSE NewBackpack

\* ThankLetterManager._load_data, lines 166-200
load_thank(file) == IF file.exists THEN file.data ELSE NewThankData

\* UserIsolationManager._load_blacklist, lines 30-39
load_blacklist(file) == IF file.exists THEN file.data ELSE <<>>

\* The files after a call that took the stores to their primed values
Persist ==
    disk' = [disk EXCEPT
                !.money = Written(@, manager, manager'),
                !.backpack = Written(@, backpack_manager, backpack_manager'),
                !.thank = Written(@, thank_manager, thank_manager'),
                !.blacklist = Written(@, blacklist, blacklist')]

Init ==
    /\ \E b \in InitialBalances :
          /\ manager = NewLedger(b)
          /\ disk = NewDisk(b)
    /\ backpack_manager = NewBackpack
    /\ thank_manager = NewThankData
    /\ today = 1
    /\ blacklist = <<>>
    /\ managers_cache = {}
    /\ iso_files = [u \in Users |-> NoIsoFile]
    /\ processed_message_ids = {}
    /\ suspended = {}
    /\ last = Call("init", NoUser, TRUE, 0, "")
    /\ ghost = NoHistory
    /\ steps = 0

Tick == steps < MaxSteps /\ steps' = steps + 1

-----------------------------------------------------------------------------
(* Calls of the ledger's operations on the real ledger *)

StoreAmounts == {0 - 1, 0, 1, 2}
Admin == "admin"

OtherThanLedger ==
    <<backpack_manager, thank_manager, today, blacklist, managers_cache,
      iso_files, processed_message_ids>>

LedgerCall(op, r, amount, id) ==
    /\ Tick
    /\ manager' = r.l
    /\ last' = Call(op, Admin, r.ok, amount, id)
    /\ UNCHANGED <<OtherThanLedger, ghost>>
    /\ UNCHANGED suspended
    /\ Persist

AddIncome ==
    \E a \in StoreAmounts :
        LedgerCall("add_income", add_income(manager, MaxRecords, a, "r", Admin),
                   a, "")

AddExpense ==
    \E a \in StoreAmounts :
        LedgerCall("add_expense",
                   add_expense(manager, MaxRecords, a, "r", Admin), a, "")

SetBalance ==
    \E a \in StoreAmounts :
        LedgerCall("set_balance",
                   set_balance(manager, MaxRecords, a, "r", Admin), a, "")

DepositToSavings ==
    \E a \in StoreAmounts :
        LedgerCall("deposit_to_savings",
                   deposit_to_savings(manager, a, "r", Admin), a, "")

WithdrawFromSavings ==
    \E a \in StoreAmounts :
        LedgerCall("withdraw_from_savings",
                   withdraw_from_savings(manager, a, "r", Admin), a, "")

ApplyWithdrawal ==
    \E a \in StoreAmounts, id \in WithdrawalIds :
        LedgerCall("apply_withdrawal",
                   apply_withdrawal(manager, a, "r", "u1", id), a, id)

\* an id no request carries, next to the ids in use
ApprovalIds == WithdrawalIds \cup {"w0"}

ApproveWithdrawal ==
    \E id \in ApprovalIds :
        LedgerCall("approve_withdrawal",
                   approve_withdrawal(manager, id, Admin), 0, id)

RejectWithdrawal ==
    \E id \in ApprovalIds :
        LedgerCall("reject_withdrawal",
                   reject_withdrawal(manager, id, "no", Admin), 0, id)

\* the max_entries handed to add_note (config max_note_entries)
NoteLimits == {0, 2}
NoteTexts == {<<"a">>, <<" ">>, <<" ", "b">>}
NoteIndexes == {0, 1, 3}

AddNote ==
    \E content \in NoteTexts, max_entries \in NoteLimits :
        LET r == add_note(manager, content, max_entries)
        IN  /\ Tick
            /\ manager' = r.l
            /\ last' = [Call("add_note", Admin, r.ok, max_entries, "")
                           EXCEPT !.name = content]
            /\ UNCHANGED <<OtherThanLedger, ghost>>
            /\ UNCHANGED suspended
            /\ Persist

DeleteNote ==
    \E index \in NoteIndexes :
        LedgerCall("delete_note", delete_note(manager, index), index, "")

ClearNotes == LedgerCall("clear_notes", clear_notes(manager), 0, "")

NextLedger ==
    \/ AddIncome
    \/ AddExpense
    \/ SetBalance
    \/ DepositToSavings
    \/ WithdrawFromSavings

SpecLedger == Init /\ [][NextLedger]_vars

NextSavings ==
    \/ DepositToSavings
    \/ WithdrawFromSavings
    \/ ApplyWithdrawal
    \/ ApproveWithdrawal
    \/ RejectWithdrawal

SpecSavings == Init /\ [][NextSavings]_vars

-----------------------------------------------------------------------------
(* The plugin's handlers *)

\* a duplicate check that recognises nothing
IsDuplicate_never(seen, unique_key) == FALSE

\* unique_key in self.processed_message_ids, line 1108
IsDuplicate(seen, unique_key) == unique_key \in seen

\* lines 1112-1114: the key is added and a set of more than SeenLimit keys is
\* cut to SeenKeep of them; list(a_set)[-500:] takes the keys in the set's
\* iteration order, which is no order of arrival, so any SeenKeep of the
\* keys can be the ones that stay
Remember(seen, unique_key) ==
    LET added == seen \cup {unique_key}
    IN  IF Cardinality(added) > SeenLimit
        THEN {kept \in SUBSET added : Cardinality(kept) = SeenKeep}
        ELSE {added}

\* A response as it is delivered: the sender of the event, the event's
\* message_id and the completion text
Response(user_id, message_id, text) ==
    [user_id |-> user_id, message_id |-> message_id, text |-> text]

Handled(h) ==
    /\ manager' = h.m
    /\ backpack_manager' = h.b
    /\ iso_files' = h.iso
    /\ managers_cache' = h.cache

Here(text) ==
    Stores(manager, backpack_manager, iso_files, managers_cache, blacklist,
           text)

\* on_llm_resp, lines 1094-1326, for the delivery of one of the given
\* responses
OnLlmResp(responses) ==
    \E resp \in responses :
    \E application_id \in
           IF Matches(resp.text, "withdraw") = <<>> THEN {"w1"}
           ELSE WithdrawalIds :
        LET user_id == resp.user_id
            message_id == resp.message_id
            text == resp.text
            unique_key == UniqueKey(message_id, text)
            call == [Call("on_llm_resp", user_id, TRUE, 0, application_id)
                        EXCEPT !.mid = message_id, !.text = text]
        IN  /\ Tick
            /\ IF IsDuplicate(processed_message_ids, unique_key)
               THEN /\ last' = [call EXCEPT !.ok = FALSE, !.out = text]
                    /\ UNCHANGED <<manager, backpack_manager, iso_files,
                                   managers_cache, processed_message_ids,
                                   ghost>>
               ELSE LET h == ProcessResponse(Here(text), user_id,
                                             application_id)
                    IN  /\ processed_message_ids' \in
                               Remember(processed_message_ids, unique_key)
                        /\ Handled(h)
                        /\ last' = [call EXCEPT
                                        !.out = IF h.exc THEN text
                                                ELSE h.text,
                                        !.exc = h.exc]
                        /\ ghost' = [ghost EXCEPT
                                        !.applied = Append(@, unique_key)]
            /\ UNCHANGED <<thank_manager, today, blacklist>>
            /\ UNCHANGED suspended
            /\ Persist

\* on_llm_resp has one await, line 1318 (send_private_msg to the admin),
\* reached when the apply-withdraw pass has filed a request; a coroutine
\* gives way to other handlers at an await only, so the handler runs in one
\* piece up to there (or to its end) and in another from there to its end
\* (an exception in an earlier pass ends the handler before that pass)
Awaits ==
    Len(manager'.pending_withdrawals) > Len(manager.pending_withdrawals)

\* a handler that files another request once the notification is sent
AfterAwait_filing(h, s) ==
    [h EXCEPT !.text = s.cleaned_text,
              !.m = [@ EXCEPT !.pending_withdrawals =
                        Append(@, [id |-> "w0", amount |-> 1,
                                   reason |-> "r", status |-> "pending",
                                   source_info |-> s.user_id])]]

\* lines 1319-1326, the handler after the await: the notification has been
\* sent or has failed (the failure is logged), and cleaned_text is put into
\* the response; no store is read or written
AfterAwait(h, s) ==
    [h EXCEPT !.text = s.cleaned_text]

\* on_llm_resp, lines 1094-1318, for the delivery of one of the given
\* responses while other handlers may be waiting: the handler runs to its
\* end or to its await
OnLlmRespBegin(responses) ==
    \E resp \in responses :
    \E application_id \in
           IF Matches(resp.text, "withdraw") = <<>> THEN {"w1"}
           ELSE WithdrawalIds :
        LET user_id == resp.user_id
            message_id == resp.message_id
            text == resp.text
            unique_key == UniqueKey(message_id, text)
            call == [Call("on_llm_resp", user_id, TRUE, 0, application_id)
                        EXCEPT !.mid = message_id, !.text = text]
        IN  /\ Tick
            /\ IF IsDuplicate(processed_message_ids, unique_key)
               THEN /\ last' = [call EXCEPT !.ok = FALSE, !.out = text]
                    /\ UNCHANGED <<manager, backpack_manager, iso_files,
                                   managers_cache, processed_message_ids,
                                   suspended, ghost>>
               ELSE LET h == ProcessResponse(Here(text), user_id,
                                             application_id)
                    IN  /\ processed_message_ids' \in
                               Remember(processed_message_ids, unique_key)
                        /\ Handled(h)
                        /\ suspended' =
                               IF Awaits
                               THEN suspended \cup
                                      {[user_id |-> user_id,
                                        message_id |-> message_id,
                                        text |-> text,
                                        cleaned_text |-> h.text]}
                               ELSE suspended
                        /\ last' = [call EXCEPT
                                        !.op = IF Awaits
                                               THEN "on_llm_resp_awaits"
                                               ELSE "on_llm_resp",
                                        !.out = IF h.exc \/ Awaits THEN text
                                                ELSE h.text,
                                        !.exc = h.exc]
                        /\ ghost' = [ghost EXCEPT
                                        !.applied = Append(@, unique_key)]
            /\ UNCHANGED <<thank_manager, today, blacklist>>
            /\ Persist

\* on_llm_resp, lines 1319-1326: a waiting handler goes on to its end
OnLlmRespResume ==
    \E s \in suspended :
        LET h == AfterAwait(Here(s.text), s)
        IN  /\ Tick
            /\ Handled(h)
            /\ suspended' = suspended \ {s}
            /\ last' = [Call("on_llm_resp_resumed", s.user_id, TRUE, 0, "")
                           EXCEPT !.mid = s.message_id, !.text = s.text,
                                  !.out = h.text]
            /\ UNCHANGED <<thank_manager, today, blacklist,
                           processed_message_ids, ghost>>
            /\ Persist

\* add_context_prompt (on_llm_request), lines 1007-1092: resolves the user's
\* stores and reads them; get_today_bonus rolls the tracker's day over
AddContextPrompt(users) ==
    \E user_id \in users :
        LET h == get_managers_for_user(Here(<<>>), user_id)
        IN  /\ Tick
            /\ Handled(h)
            /\ thank_manager' = check_and_reset_daily(thank_manager, today)
            /\ last' = Call("add_context_prompt", user_id, TRUE, 0, "")
            /\ UNCHANGED <<today, blacklist, processed_message_ids, ghost>>
            /\ UNCHANGED suspended
            /\ Persist

\* _parse_amount, lines 1336-1344, of an argument that float() turned into
\* val (parsed) or rejected (~parsed)
parse_amount(arg, allow_zero) ==
    IF ~arg.parsed THEN [ok |-> FALSE, val |-> 0]
    ELSE IF arg.val < 0 THEN [ok |-> FALSE, val |-> 0]
    ELSE IF arg.val = 0 /\ ~allow_zero THEN [ok |-> FALSE, val |-> 0]
    ELSE [ok |-> TRUE, val |-> Round2(arg.val)]

\* the amount arguments typed after a command
AmountArgs ==
    {[parsed |-> FALSE, val |-> 0]} \cup
    {[parsed |-> TRUE, val |-> v] : v \in {0 - 1, 0, 1, 2}}

\* _is_admin, lines 1330-1331: event.role == "admin"; the sender Admin
\* stands for an event with that role
is_admin(sender) == sender = Admin

AdminCall(op, h, ok, val) ==
    /\ Tick
    /\ Handled(h)
    /\ last' = Call(op, Admin, ok, val, "")
    /\ UNCHANGED <<thank_manager, today, blacklist, processed_message_ids,
                   ghost>>
    /\ UNCHANGED suspended
    /\ Persist

\* admin_add_income, lines 1346-1356
AdminAddIncome(senders, args) ==
    \E sender \in senders, arg \in args :
        LET p == parse_amount(arg, FALSE)
            r == add_income(manager, MaxRecords, p.val, "r", Admin)
            h == Here(<<>>)
        IN  IF ~is_admin(sender) \/ ~p.ok
            THEN AdminCall("admin_add_income", h, FALSE, arg.val)
            ELSE IF r.ok
            THEN AdminCall("admin_add_income",
                           sync_income_to_all([h EXCEPT !.m = r.l], blacklist,
                                              p.val, "r", Admin),
                           TRUE, p.val)
            ELSE AdminCall("admin_add_income", h, FALSE, p.val)

\* the command deposit_to_savings, lines 1859-1905: float(amount) gives
\* arg.val or raises ValueError (~arg.parsed); the command debits the
\* balance with add_expense, then calls the ledger's deposit_to_savings and,
\* when that fails, credits the amount back with add_income
AdminDepositToSavings(senders, args) ==
    \E sender \in senders, arg \in args :
        LET amount_value == arg.val
            r1 == add_expense(manager, MaxRecords, amount_value,
                              "to savings: r", sender)
            r2 == deposit_to_savings(r1.l, amount_value, "r", sender)
            back == add_income(r1.l, MaxRecords, amount_value,
                               "deposit rolled back", sender)
            Done(l, ok) ==
                /\ Tick
                /\ manager' = l
                /\ last' = Call("admin_deposit_to_savings", sender, ok,
                                arg.val, "")
                /\ UNCHANGED <<OtherThanLedger, ghost>>
                /\ UNCHANGED suspended
                /\ Persist
        IN  IF ~is_admin(sender) THEN Done(manager, FALSE)
            ELSE IF ~arg.parsed \/ amount_value <= 0
            THEN Done(manager, FALSE)
            ELSE IF amount_value > manager.balance THEN Done(manager, FALSE)
            ELSE IF ~r1.ok THEN Done(manager, FALSE)
            ELSE IF ~r2.ok THEN Done(back.l, FALSE)
            ELSE Done(r2.l, TRUE)

\* admin_add_expense, lines 1358-1370
AdminAddExpense(senders, args) ==
    \E sender \in senders, arg \in args :
        LET p == parse_amount(arg, FALSE)
            r == add_expense(manager, MaxRecords, p.val, "r", Admin)
            h == Here(<<>>)
        IN  IF ~is_admin(sender) \/ ~p.ok
            THEN AdminCall("admin_add_expense", h, FALSE, arg.val)
            ELSE IF p.val > manager.balance
            THEN AdminCall("admin_add_expense", h, FALSE, p.val)
            ELSE IF r.ok
            THEN AdminCall("admin_add_expense",
                           sync_expense_to_all([h EXCEPT !.m = r.l],
                                               blacklist, p.val, "r", Admin),
                           TRUE, p.val)
            ELSE AdminCall("admin_add_expense", h, FALSE, p.val)

\* admin_set_balance, lines 1372-1383
AdminSetBalance(senders, args) ==
    \E sender \in senders, arg \in args :
        LET p == parse_amount(arg, TRUE)
            r == set_balance(manager, MaxRecords, p.val, "r", Admin)
            h == Here(<<>>)
        IN  IF ~is_admin(sender) \/ ~p.ok
            THEN AdminCall("admin_set_balance", h, FALSE, arg.val)
            ELSE IF r.ok
            THEN AdminCall("admin_set_balance",
                           sync_set_balance_to_all([h EXCEPT !.m = r.l],
                                                   blacklist, p.val, "r",
                                                   Admin),
                           TRUE, p.val)
            ELSE AdminCall("admin_set_balance", h, FALSE, p.val)

BlacklistCall(op, user_id, ok, bl, cache, removed) ==
    /\ Tick
    /\ blacklist' = bl
    /\ managers_cache' = cache
    /\ ghost' = [ghost EXCEPT
                    !.removed = @ \cup removed,
                    !.listed = IF op = "add_to_blacklist" /\ ok
                               THEN [@ EXCEPT ![user_id] = manager.balance]
                               ELSE @]
    /\ last' = Call(op, user_id, ok, 0, "")
    /\ UNCHANGED <<manager, backpack_manager, thank_manager, today,
                   iso_files, processed_message_ids>>
    /\ UNCHANGED suspended
    /\ Persist

\* the command add_to_blacklist, lines 1734-1757, with the user-id argument
\* after strip()
AddToBlacklist(senders, users) ==
    \E sender \in senders, user_id \in users :
        LET r == add_to_blacklist(blacklist, user_id)
        IN  IF ~is_admin(sender) \/ user_id = NoUser
            THEN BlacklistCall("add_to_blacklist", user_id, FALSE, blacklist,
                               managers_cache, {})
            ELSE BlacklistCall("add_to_blacklist", user_id, r.ok, r.bl,
                               managers_cache, {})

\* the command remove_from_blacklist, lines 1759-1774
RemoveFromBlacklist(senders, users) ==
    \E sender \in senders, user_id \in users :
        LET r == remove_from_blacklist(blacklist, managers_cache, user_id)
        IN  IF ~is_admin(sender) \/ user_id = NoUser
            THEN BlacklistCall("remove_from_blacklist", user_id, FALSE,
                               blacklist, managers_cache, {})
            ELSE BlacklistCall("remove_from_blacklist", user_id, r.ok, r.bl,
                               r.cache, IF r.ok THEN {user_id} ELSE {})

\* view_isolation_data, lines 1800-1855: shows a blacklisted user's isolated
\* stores, creating them when it is their first access
ViewIsolationData(senders, users) ==
    \E sender \in senders, user_id \in users :
        LET shown == is_admin(sender) /\ user_id # NoUser
                     /\ is_blacklisted(blacklist, user_id)
            h == IF shown
                 THEN get_isolated_managers(Here(<<>>), user_id, FALSE)
                 ELSE Here(<<>>)
        IN  /\ Tick
            /\ Handled(h)
            /\ last' = Call("view_isolation_data", user_id, shown, 0, "")
            /\ UNCHANGED <<thank_manager, today, blacklist,
                           processed_message_ids, ghost>>
            /\ UNCHANGED suspended
            /\ Persist

\* random.randint(thank_letter_min_amount, thank_letter_max_amount)
ThankAmounts == {1, 2}
\* event.get_sender_name()
SenderNames == {"n1", "n2"}

\* send_thank_letter, lines 1440-1462
SendThankLetter(users, names) ==
    \E uid \in users, name \in names, amount \in ThankAmounts :
        LET is_isolated == is_blacklisted(blacklist, uid)
            h == get_managers_for_user(Here(<<>>), uid)
            r == record_thank_letter(thank_manager, today, uid, name, amount)
            money == Money(h, uid, is_isolated)
            paid == WithMoney(h, uid, is_isolated,
                        [money EXCEPT !.balance = Round2(@ + amount)])
        IN  /\ Tick
            /\ IF ~can_send_today(thank_manager, today, uid)
               THEN /\ Handled(h)
                    /\ thank_manager' =
                           check_and_reset_daily(thank_manager, today)
                    /\ last' = Call("send_thank_letter", uid, FALSE, 0, "")
               ELSE IF ~r.ok
               THEN /\ Handled(h)
                    /\ thank_manager' = r.d
                    /\ last' = Call("send_thank_letter", uid, FALSE, amount,
                                    "")
               ELSE /\ Handled(paid)
                    /\ thank_manager' = r.d
                    /\ last' = Call("send_thank_letter", uid, TRUE, amount,
                                    "")
            /\ ghost' = IF can_send_today(thank_manager, today, uid) /\ r.ok
                        THEN [ghost EXCEPT
                                !.sent = @ \cup {<<uid, today>>},
                                !.recorded =
                                    Append(@, [date |-> today,
                                               amount |-> amount])]
                        ELSE ghost
            /\ UNCHANGED <<today, blacklist, processed_message_ids>>
            /\ UNCHANGED suspended
            /\ Persist

\* ThankLetterManager.record_thank_letter called on the tracker
RecordThankLetter(users, names) ==
    \E uid \in users, name \in names, amount \in ThankAmounts :
        LET r == record_thank_letter(thank_manager, today, uid, name, amount)
        IN  /\ Tick
            /\ thank_manager' = r.d
            /\ last' = Call("record_thank_letter", uid, r.ok, amount, "")
            /\ ghost' = IF r.ok
                        THEN [ghost EXCEPT
                                !.sent = @ \cup {<<uid, today>>},
                                !.recorded =
                                    Append(@, [date |-> today,
                                               amount |-> amount])]
                        ELSE ghost
            /\ UNCHANGED <<manager, backpack_manager, today, blacklist,
                           managers_cache, iso_files, processed_message_ids>>
            /\ UNCHANGED suspended
            /\ Persist

\* the calendar days the clock passes through
LastDay == 3

\* ThankLetterManager.can_send_today and get_today_bonus called on the
\* tracker
CanSendToday(users) ==
    \E uid \in users :
        /\ Tick
        /\ thank_manager' = check_and_reset_daily(thank_manager, today)
        /\ last' = Call("can_send_today", uid,
                        can_send_today(thank_manager, today, uid), 0, "")
        /\ UNCHANGED <<manager, backpack_manager, today, blacklist,
                       managers_cache, iso_files, processed_message_ids,
                       ghost>>
        /\ UNCHANGED suspended
        /\ Persist

GetTodayBonus ==
    /\ Tick
    /\ thank_manager' = get_today_bonus(thank_manager, today)
    /\ last' = Call("get_today_bonus", NoUser, TRUE,
                    thank_manager'.today_bonus, "")
    /\ UNCHANGED <<manager, backpack_manager, today, blacklist,
                   managers_cache, iso_files, processed_message_ids, ghost>>
    /\ UNCHANGED suspended
    /\ Persist

\* the last calendar day of the longer calendar
FarDay == 9

\* datetime.now() moves on by one of the given numbers of days
SkipDays(jumps) ==
    \E k \in jumps :
        /\ Tick
        /\ today + k <= FarDay
        /\ today' = today + k
        /\ last' = Call("skip_days", NoUser, TRUE, k, "")
        /\ UNCHANGED <<manager, backpack_manager, thank_manager, blacklist,
                       managers_cache, iso_files, processed_message_ids,
                       ghost>>
        /\ UNCHANGED suspended
        /\ Persist

\* datetime.now() moves to a later day
AdvanceDay ==
    /\ Tick
    /\ today < LastDay
    /\ today' = today + 1
    /\ last' = Call("advance_day", NoUser, TRUE, 0, "")
    /\ UNCHANGED <<manager, backpack_manager, thank_manager, blacklist,
                   managers_cache, iso_files, processed_message_ids, ghost>>
    /\ UNCHANGED suspended
    /\ Persist

-----------------------------------------------------------------------------
(* Calls of the inventory's operations on the real inventory *)

BackpackCall(op, user_id, name, ok, b) ==
    /\ Tick
    /\ backpack_manager' = b
    /\ last' = [Call(op, user_id, ok, 0, "") EXCEPT !.name = name]
    /\ UNCHANGED <<manager, thank_manager, today, blacklist, managers_cache,
                   iso_files, processed_message_ids, ghost>>
    /\ UNCHANGED suspended
    /\ Persist

AddSharedItem(names) ==
    \E name \in names :
        LET r == add_shared_item(backpack_manager, MaxSharedSlots, name, "d")
        IN  BackpackCall("add_shared_item", NoUser, name, r.ok, r.b)

UseSharedItem(names) ==
    \E name \in names :
        LET r == use_shared_item(backpack_manager, name)
        IN  BackpackCall("use_shared_item", NoUser, name, r.ok, r.b)

ClearSharedItems ==
    BackpackCall("clear_shared_items", NoUser, <<>>, TRUE,
                 clear_shared_items(backpack_manager))

AddUserGift(users, names) ==
    \E user_id \in users, name \in names :
        LET r == add_user_gift(backpack_manager, MaxUserSlots, user_id, name,
                               "d", user_id)
        IN  BackpackCall("add_user_gift", user_id, name, r.ok, r.b)

UseUserItem(users, names) ==
    \E user_id \in users, name \in names :
        LET r == use_user_item(backpack_manager, user_id, name)
        IN  BackpackCall("use_user_item", user_id, name, r.ok, r.b)

ClearUserItems(users) ==
    \E user_id \in users :
        BackpackCall("clear_user_items", user_id, <<>>, TRUE,
                     clear_user_items(backpack_manager, user_id))

-----------------------------------------------------------------------------
(* Response texts: the bracketed tags of lines 856-922 *)

\* [Spend: amount]
SpendTag(amount) == Span({"spend"}, amount, NoName, NoReason)
\* [Store: name, Desc: d]
StoreTag(name) == Span({"store"}, NoAmount, name, NoReason)
\* [Use: name]
UseTag(name) == Span({"use"}, NoAmount, name, NoReason)
\* [Gift: name, From: f, Desc: d]
GiftTag(name) == Span({"gift"}, NoAmount, name, NoReason)
\* [UseGift: name]; the gift pattern finds its keyword in it as well
UseGiftTag(name) == Span({"usegift", "gift"}, NoAmount, name, NoReason)
\* [Refund: amount]
RefundTag(amount) == Span({"refund"}, amount, NoName, NoReason)
\* [Note: n]
NoteTag == Span({"note"}, NoAmount, NoName, NoReason)
\* [ApplyWithdraw: amount]
WithdrawTag(amount) == Span({"withdraw"}, amount, NoName, NoReason)

-----------------------------------------------------------------------------
(* The inventory under direct calls, responses and mirroring *)

BackpackResponses ==
    {Response("x", 1, <<StoreTag(<<"a">>)>>),
     Response("u1", 2, <<StoreTag(<<"a">>)>>),
     Response("u1", 3, <<StoreTag(<<"b">>)>>),
     Response("x", 4, <<GiftTag(<<"a">>)>>),
     Response("u1", 5, <<GiftTag(<<"a">>), GiftTag(<<"b">>)>>)}

NextBackpack ==
    \/ AddSharedItem({<<"a">>})
    \/ UseSharedItem({<<"A", " ">>})
    \/ AddUserGift({"u1"}, {<<"a">>})
    \/ AddToBlacklist({Admin}, {"x"})
    \/ OnLlmResp(BackpackResponses)

SpecBackpack == Init /\ [][NextBackpack]_vars

-----------------------------------------------------------------------------
(* Deliveries and redeliveries of responses *)

DedupResponses ==
    {Response("u1", 1, <<SpendTag(1)>>),
     Response("u1", 2, <<RefundTag(1)>>),
     Response("u1", 3, <<StoreTag(<<"a">>)>>),
     Response("x", 4, <<SpendTag(1)>>),
     Response("u1", 5, <<WithdrawTag(1), NoteTag>>)}

NextDedup ==
    \/ OnLlmResp(DedupResponses)
    \/ AddToBlacklist({Admin}, {"x"})
    \/ DepositToSavings

SpecDedup == Init /\ [][NextDedup]_vars

-----------------------------------------------------------------------------
(* Spend tags of a normal and of a blacklisted user *)

SpendResponses ==
    {Response("u1", 1, <<SpendTag(0)>>),
     Response("u1", 2, <<SpendTag(3)>>),
     Response("u1", 3, <<SpendTag(3), SpendTag(2)>>),
     Response("x", 4, <<SpendTag(1)>>),
     Response("x", 5, <<SpendTag(3)>>)}

NextSpend ==
    \/ OnLlmResp(SpendResponses)
    \/ AddToBlacklist({Admin}, {"x"})
    \/ AdminAddIncome({Admin}, {[parsed |-> TRUE, val |-> 1]})

SpecSpend == Init /\ [][NextSpend]_vars

-----------------------------------------------------------------------------
(* Thank letters over several days *)

NextThank ==
    \/ RecordThankLetter({"u1", "x"}, SenderNames)
    \/ SendThankLetter({"u1", "x"}, {"n1"})
    \/ AdvanceDay
    \/ AddToBlacklist({Admin}, {"x"})

SpecThank == Init /\ [][NextThank]_vars

-----------------------------------------------------------------------------
(* Responses of blacklisted users next to those of a normal user *)

IsolateResponses ==
    {Response("x", 1, <<SpendTag(1), StoreTag(<<"a">>), GiftTag(<<"a">>),
                        RefundTag(2), WithdrawTag(1), NoteTag>>),
     Response("x", 2, <<UseTag(<<"a">>), UseGiftTag(<<"a">>), SpendTag(3)>>),
     Response("y", 3, <<SpendTag(1), StoreTag(<<"b">>)>>),
     Response("u1", 4, <<StoreTag(<<"a">>), RefundTag(1)>>)}

NextIsolate ==
    \/ OnLlmResp(IsolateResponses)
    \/ AddToBlacklist({Admin}, {"x", "y"})
    \/ DepositToSavings

SpecIsolate == Init /\ [][NextIsolate]_vars

-----------------------------------------------------------------------------
(* A user is blacklisted, removed and blacklisted again *)

ReblacklistResponses ==
    {Response("x", 1, <<SpendTag(1), StoreTag(<<"a">>)>>),
     Response("x", 2, <<RefundTag(1)>>)}

NextReblacklist ==
    \/ AddToBlacklist({Admin}, {"x"})
    \/ RemoveFromBlacklist({Admin}, {"x"})
    \/ ViewIsolationData({Admin}, {"x"})
    \/ OnLlmResp(ReblacklistResponses)
    \/ AdminSetBalance({Admin}, {[parsed |-> TRUE, val |-> 1]})

SpecReblacklist == Init /\ [][NextReblacklist]_vars

-----------------------------------------------------------------------------
(* From the blacklisting of a user to the first access of their stores *)

SeedResponses ==
    {Response("x", 1, <<SpendTag(1)>>),
     Response("u1", 2, <<RefundTag(1)>>)}

NextSeed ==
    \/ AddToBlacklist({Admin}, {"x"})
    \/ ViewIsolationData({Admin}, {"x"})
    \/ SendThankLetter({"u1"}, {"n1"})
    \/ AdminAddIncome({Admin}, {[parsed |-> TRUE, val |-> 1]})
    \/ OnLlmResp(SeedResponses)
    \/ AdvanceDay

SpecSeed == Init /\ [][NextSeed]_vars

-----------------------------------------------------------------------------
(* Ledger operations of normal actors, mirrored to the isolated ledgers *)

MirrorResponses ==
    {Response("x", 1, <<SpendTag(1)>>),
     Response("u1", 2, <<SpendTag(1)>>),
     Response("u1", 3, <<SpendTag(3)>>)}

NextMirror ==
    \/ AddToBlacklist({Admin}, {"x", "y"})
    \/ ViewIsolationData({Admin}, {"y"})
    \/ OnLlmResp(MirrorResponses)
    \/ AdminAddExpense({Admin}, {[parsed |-> TRUE, val |-> 1]})
    \/ AdminSetBalance({Admin}, {[parsed |-> TRUE, val |-> 0],
                                 [parsed |-> TRUE, val |-> 2]})
    \/ SetBalance

SpecMirror == Init /\ [][NextMirror]_vars

-----------------------------------------------------------------------------
(* Store and use tags of a normal user, mirrored to the isolated inventories *)

ShareResponses ==
    {Response("u1", 1, <<StoreTag(<<"a">>)>>),
     Response("u1", 2, <<StoreTag(<<"b">>)>>),
     Response("u1", 3, <<UseTag(<<"A">>)>>),
     Response("x", 4, <<StoreTag(<<"b">>)>>),
     Response("x", 5, <<UseTag(<<"a">>)>>)}

NextShare ==
    \/ AddToBlacklist({Admin}, {"x", "y"})
    \/ ViewIsolationData({Admin}, {"x", "y"})
    \/ OnLlmResp(ShareResponses)

SpecShare == Init /\ [][NextShare]_vars

-----------------------------------------------------------------------------
(* Tags whose required field cannot be extracted *)

\* a bracketed span with the keyword of the kind and no field the kind's
\* field pattern can extract, such as [Spend: lots] or [Store: a]
MalformedTag(kind) == Span({kind}, NoAmount, NoName, NoReason)

\* a tag whose name field is blank, such as [Store: , Desc: d] or
\* [UseGift: ]: the name pattern finds a space
BlankNameTag(kind) == Span({kind}, NoAmount, <<" ">>, NoReason)

MalformedText ==
    <<MalformedTag("spend"), MalformedTag("store"), MalformedTag("usegift"),
      MalformedTag("use"), MalformedTag("gift"), MalformedTag("refund"),
      MalformedTag("withdraw")>>

MalformedResponses ==
    {Response("u1", 1, MalformedText),
     Response("x", 2, MalformedText),
     Response("x", 3, <<BlankNameTag("use"), BlankNameTag("usegift")>>),
     Response("u1", 6, <<BlankNameTag("store")>>),
     Response("x", 4, <<BlankNameTag("gift")>>)}

NextMalformed ==
    \/ OnLlmResp(MalformedResponses)
    \/ AddToBlacklist({Admin}, {"x"})

SpecMalformed == Init /\ [][NextMalformed]_vars

-----------------------------------------------------------------------------
(* Responses that hold several tags of one kind *)

SeveralResponses ==
    {Response("u1", 1, <<SpendTag(2), SpendTag(1), StoreTag(<<"a">>),
                         StoreTag(<<"b">>), GiftTag(<<"a">>),
                         GiftTag(<<"b">>)>>),
     Response("u1", 2, <<WithdrawTag(2), WithdrawTag(1), RefundTag(1),
                         RefundTag(2)>>),
     Response("u1", 3, <<UseGiftTag(<<"b">>), UseGiftTag(<<"a">>)>>),
     Response("x", 4, <<SpendTag(1), MalformedTag("spend"),
                        StoreTag(<<"a">>), StoreTag(<<"b">>),
                        GiftTag(<<"a">>), GiftTag(<<"b">>)>>)}

NextSeveral ==
    \/ OnLlmResp(SeveralResponses)
    \/ AddToBlacklist({Admin}, {"x"})
    \/ DepositToSavings

SpecSeveral == Init /\ [][NextSeveral]_vars

-----------------------------------------------------------------------------
(* Tags whose field text holds the keyword of another kind *)

\* [Refund: amount, Reason: gift returned]: the gift pattern finds its
\* keyword in the reason, the gift name pattern finds no name
RefundAboutGift(amount) == Span({"gift", "refund"}, amount, NoName, NoReason)
\* [Store: Spend diary, Desc: d]: the spend pattern finds its keyword in
\* the name, the spend amount pattern finds no amount
StoreAboutSpend(name) == Span({"spend", "store"}, NoAmount, name, NoReason)

CrossResponses ==
    {Response("u1", 1, <<RefundAboutGift(1)>>),
     Response("u1", 2, <<StoreAboutSpend(<<"s">>)>>),
     Response("u1", 3, <<RefundTag(1)>>),
     Response("x", 4, <<RefundAboutGift(1)>>),
     Response("x", 5, <<StoreTag(<<"a">>)>>)}

NextCross ==
    \/ OnLlmResp(CrossResponses)
    \/ AddToBlacklist({Admin}, {"x"})

SpecCross == Init /\ [][NextCross]_vars

-----------------------------------------------------------------------------
(* Use-gift tags *)

\* [UseGift: mouse]: the use pattern finds the letters of its keyword in
\* the name (the gift pattern finds its keyword in UseGift)
UseGiftAboutUse(name) ==
    Span({"usegift", "gift", "use"}, NoAmount, name, NoReason)

UseGiftResponses ==
    {Response("u1", 1, <<StoreTag(<<"m">>)>>),
     Response("u1", 2, <<GiftTag(<<"m">>)>>),
     Response("u1", 3, <<UseGiftAboutUse(<<"m">>)>>),
     Response("x", 4, <<StoreTag(<<"m">>), GiftTag(<<"m">>)>>),
     Response("x", 5, <<UseGiftTag(<<"M">>)>>)}

NextUseGift ==
    \/ OnLlmResp(UseGiftResponses)
    \/ AddToBlacklist({Admin}, {"x"})

SpecUseGift == Init /\ [][NextUseGift]_vars

-----------------------------------------------------------------------------
(* Items taken out of the inventory by name *)

NextUse ==
    \/ AddSharedItem({<<"A">>, <<"a">>, <<"b">>})
    \/ UseSharedItem({<<"a">>, <<" ", "B">>})
    \/ AddUserGift({"u1"}, {<<"A">>, <<"a">>})
    \/ UseUserItem({"u1"}, {<<"a">>, <<"c">>})

SpecUse == Init /\ [][NextUse]_vars

-----------------------------------------------------------------------------
(* The stores and their files *)

NextPersist ==
    \/ AddExpense
    \/ AddSharedItem({<<"a">>})
    \/ UseSharedItem({<<"a">>})
    \/ RecordThankLetter({"u1"}, {"n1"})
    \/ AddToBlacklist({Admin}, {"x"})
    \/ RemoveFromBlacklist({Admin}, {"x"})

SpecPersist == Init /\ [][NextPersist]_vars

-----------------------------------------------------------------------------
(* Restart of the process *)

\* A data directory that came from version 1.6: it holds savings_book.json
OldSavingsBook == File(TRUE, [balance |-> 1, pending_withdrawals |-> <<>>])

\* The state after construction on such a directory: the ledger has taken
\* the savings balance of the file and has been saved (lines 511-524)
InitUpgraded ==
    /\ \E b \in InitialBalances :
          LET l == migrate_savings_data(NewLedger(b), OldSavingsBook)
          IN  /\ manager = l
              /\ disk = [NewDisk(b) EXCEPT !.savings_book = OldSavingsBook,
                                            !.money = save_data(@, l)]
    /\ backpack_manager = NewBackpack
    /\ thank_manager = NewThankData
    /\ today = 1
    /\ blacklist = <<>>
    /\ managers_cache = {}
    /\ iso_files = [u \in Users |-> NoIsoFile]
    /\ processed_message_ids = {}
    /\ suspended = {}
    /\ last = Call("init", NoUser, TRUE, 0, "")
    /\ ghost = NoHistory
    /\ steps = 0

\* The process ends and PocketMoneyPlugin.__init__, lines 826-925, runs
\* again on the data directory: every store is loaded from its file, the
\* cache of isolated managers and the set of processed responses are empty
Restart ==
    LET l == migrate_savings_data(
                 load_ledger(disk.money, disk.config.initial_balance),
                 disk.savings_book)
    IN  /\ Tick
        /\ manager' = l
        /\ backpack_manager' = load_backpack(disk.backpack)
        /\ thank_manager' = load_thank(disk.thank)
        /\ blacklist' = load_blacklist(disk.blacklist)
        /\ managers_cache' = {}
        /\ processed_message_ids' = {}
        /\ suspended' = {}
        /\ disk' = [disk EXCEPT !.money = IF disk.savings_book.exists
                                          THEN save_data(@, l) ELSE @]
        /\ last' = Call("restart", NoUser, TRUE, 0, "")
        /\ UNCHANGED <<today, iso_files, ghost>>

RestartResponses ==
    {Response("x", 1, <<SpendTag(1), StoreTag(<<"a">>)>>)}

NextRestart ==
    \/ Restart
    \/ DepositToSavings
    \/ AddSharedItem({<<"a">>})
    \/ RecordThankLetter({"u1"}, {"n1"})
    \/ AddToBlacklist({Admin}, {"x"})
    \/ OnLlmResp(RestartResponses)

SpecRestart == (Init \/ InitUpgraded) /\ [][NextRestart]_vars

-----------------------------------------------------------------------------
(* Refund and gift tags of a normal user while a user is blacklisted *)

RefundResponses ==
    {Response("u1", 1, <<RefundTag(1)>>),
     Response("u1", 2, <<GiftTag(<<"a">>)>>),
     Response("x", 3, <<RefundTag(2)>>)}

NextRefund ==
    \/ AddToBlacklist({Admin}, {"x", "y"})
    \/ ViewIsolationData({Admin}, {"x"})
    \/ OnLlmResp(RefundResponses)

SpecRefund == Init /\ [][NextRefund]_vars

-----------------------------------------------------------------------------
(* The commendation tracker over more days than it keeps *)

NextRollover ==
    \/ RecordThankLetter({"u1", "x"}, {"n1"})
    \/ CanSendToday({"u1"})
    \/ GetTodayBonus
    \/ SkipDays({1, RetentionDays})

SpecRollover == Init /\ [][NextRollover]_vars

-----------------------------------------------------------------------------
(* Users put on the blacklist and taken off it, again and again *)

NextBlacklist ==
    \/ AddToBlacklist({Admin}, {"x", "y"})
    \/ RemoveFromBlacklist({Admin}, {"x", "y"})
    \/ ViewIsolationData({Admin}, {"x"})
    \/ OnLlmResp({Response("x", 1, <<SpendTag(1)>>)})

SpecBlacklist == Init /\ [][NextBlacklist]_vars

-----------------------------------------------------------------------------
(* Resolving a user's stores while the real balance moves *)

NextResolve ==
    \/ AddToBlacklist({Admin}, {"x"})
    \/ AddContextPrompt({"x", "u1"})
    \/ SendThankLetter({"u1"}, {"n1"})
    \/ OnLlmResp({Response("x", 1, <<SpendTag(1)>>)})
    \/ AdvanceDay
    \/ Restart

SpecResolve == Init /\ [][NextResolve]_vars

-----------------------------------------------------------------------------
(* The notes of the ledger *)

NextNotes ==
    \/ AddNote
    \/ DeleteNote
    \/ ClearNotes
    \/ OnLlmResp({Response("u1", 1, <<NoteTag>>)})

SpecNotes == Init /\ [][NextNotes]_vars

-----------------------------------------------------------------------------
(* The admin's deposit command *)

NextDepositCommand ==
    \/ AdminDepositToSavings({Admin, "u1"},
                             {[parsed |-> TRUE, val |-> 1],
                              [parsed |-> TRUE, val |-> 2],
                              [parsed |-> FALSE, val |-> 0]})
    \/ AdminAddIncome({Admin}, {[parsed |-> TRUE, val |-> 1]})
    \/ WithdrawFromSavings

SpecDepositCommand == Init /\ [][NextDepositCommand]_vars

-----------------------------------------------------------------------------
(* Handlers of events that overlap *)

OverlapResponses ==
    {Response("u1", 1, <<SpendTag(1), WithdrawTag(1)>>),
     Response("u1", 2, <<RefundTag(1)>>),
     Response("x", 3, <<SpendTag(1)>>)}

NextOverlap ==
    \/ OnLlmRespBegin(OverlapResponses)
    \/ OnLlmRespResume
    \/ DepositToSavings
    \/ ApproveWithdrawal
    \/ SendThankLetter({"u1"}, {"n1"})
    \/ AddToBlacklist({Admin}, {"x"})

SpecOverlap == Init /\ [][NextOverlap]_vars

-----------------------------------------------------------------------------
(* Claims *)

Ledgers == {manager} \cup {iso_files[u].money : u \in Users}

\* C1: in every reachable state every ledger, the real one and each
\* isolated one, has balance >= 0 and savings_balance >= 0 (an operation
\* that would make either negative is rejected).
C1_BalancesNonNegative ==
    \A l \in Ledgers : l.balance >= 0 /\ l.savings_balance >= 0

C7_ApproveExactlyWhenCovered ==
    [][last'.op = "approve_withdrawal" =>
        LET old == manager.pending_withdrawals
            covered == {i \in 1..Len(old) :
                           /\ old[i].id = last'.id
                           /\ old[i].status = "pending"
                           /\ old[i].amount <= manager.savings_balance}
        IN  /\ last'.ok <=> covered # {}
            /\ last'.ok =>
                 \E i \in covered :
                    /\ manager'.savings_balance =
                           manager.savings_balance - old[i].amount
                    /\ manager'.balance = manager.balance + old[i].amount
                    /\ Len(manager'.records) = Len(manager.records) + 1
                    /\ manager'.records[Len(manager'.records)].type = "income"
                    /\ manager'.records[Len(manager'.records)].amount =
                           old[i].amount
                    /\ manager'.pending_withdrawals =
                           [old EXCEPT ![i].status = "approved"]
            /\ ~last'.ok => manager' = manager
      ]_vars

WithinSlots(b, max_shared_slots, max_user_slots) ==
    /\ Len(b.shared_items) <= max_shared_slots
    /\ \A u \in Users : Len(b.user_slots[u]) <= max_user_slots

\* C2: in every reachable state the real inventory and every isolated
\* inventory hold at most max_shared_slots shared items and at most
\* max_user_slots items in each user's exclusive slots, and add_shared_item
\* and add_user_gift called on a collection at capacity return failure and
\* change nothing.
C2_SlotsBounded ==
    /\ [](/\ WithinSlots(backpack_manager, MaxSharedSlots, MaxUserSlots)
          /\ \A u \in Users :
                WithinSlots(iso_files[u].backpack, IsoSharedSlots,
                            IsoUserSlots))
    /\ [][/\ ( /\ last'.op = "add_shared_item"
               /\ Len(backpack_manager.shared_items) = MaxSharedSlots )
             => (~last'.ok /\ backpack_manager' = backpack_manager)
          /\ ( /\ last'.op = "add_user_gift"
               /\ Len(backpack_manager.user_slots[last'.user]) = MaxUserSlots )
             => (~last'.ok /\ backpack_manager' = backpack_manager)
         ]_vars

\* C2 witness: add_shared_item has failed on the full real inventory while
\* a blacklisted user's isolated inventory, filled by mirroring, is full
\* too.
C2_Witness ==
    /\ last.op = "add_shared_item"
    /\ ~last.ok
    /\ Len(backpack_manager.shared_items) = MaxSharedSlots
    /\ \E u \in Users :
          /\ iso_files[u].exists
          /\ Len(iso_files[u].backpack.shared_items) = IsoSharedSlots

\* C3: when the same response (same message identity, same text) is
\* processed twice in a row, the second processing changes no store state:
\* ledger, inventory, pending withdrawals and isolated stores stay as the
\* first processing left them.
C3_SecondInARowChangesNothing ==
    [][( /\ last.op = "on_llm_resp"
         /\ last'.op = "on_llm_resp"
         /\ last'.user = last.user
         /\ last'.mid = last.mid
         /\ last'.text = last.text )
       => ( /\ manager' = manager
            /\ backpack_manager' = backpack_manager
            /\ iso_files' = iso_files )
      ]_vars

\* C4 as stated: whatever is processed between the deliveries of a
\* fingerprint, its mutations are applied at most once: no key passes the
\* duplicate check twice.
C4_AppliedAtMostOnce ==
    \A i, j \in 1..Len(ghost.applied) :
        i # j => ghost.applied[i] # ghost.applied[j]

\* C4 amended: the delivery of a response whose key is still in the seen-set
\* is skipped: it changes no store and it leaves the seen-set as it is,
\* however many other responses were processed since the key was added.
C4_RedeliveryWhileRemembered ==
    [][( /\ last'.op = "on_llm_resp"
         /\ UniqueKey(last'.mid, last'.text) \in processed_message_ids )
       => ( /\ ~last'.ok
            /\ manager' = manager
            /\ backpack_manager' = backpack_manager
            /\ iso_files' = iso_files
            /\ managers_cache' = managers_cache
            /\ processed_message_ids' = processed_message_ids
            /\ ghost'.applied = ghost.applied )
      ]_vars

\* C4 witness: the first response was delivered again after another
\* response had been processed, and the redelivery was skipped.
C4_Witness ==
    /\ last.op = "on_llm_resp"
    /\ ~last.ok
    /\ Len(ghost.applied) >= 2
    /\ UniqueKey(last.mid, last.text) = ghost.applied[1]
    /\ manager.records # <<>>

\* The step is the processing of a response that holds spend tags only, the
\* last of them with a parsed amount
SpendStep ==
    /\ last'.op = "on_llm_resp"
    /\ last'.ok
    /\ last'.text # <<>>
    /\ \A i \in 1..Len(last'.text) : last'.text[i].kw = {"spend"}
    /\ last'.text[Len(last'.text)].amount # NoAmount

\* The acting user's resolved ledger before and after the step
SpendAmount == last'.text[Len(last'.text)].amount
LedgerBefore ==
    Money(get_managers_for_user(Here(<<>>), last'.user), last'.user,
          is_blacklisted(blacklist, last'.user))
LedgerAfter ==
    IF is_blacklisted(blacklist, last'.user)
    THEN iso_files'[last'.user].money ELSE manager'

\* new is old with exactly one Expense of the amount appended (the oldest
\* records may have been evicted by the history bound)
OneExpenseAppended(old, new, amount) ==
    /\ new # <<>>
    /\ new[Len(new)].type = "expense"
    /\ new[Len(new)].amount = amount
    /\ \E k \in 0..Len(old) :
          /\ Len(new) = Len(old) - k + 1
          /\ \A i \in 1..(Len(new) - 1) : new[i] = old[k + i]

\* C5 as stated: a spend tag of amount a on a resolved ledger of balance b:
\* with 0 < b < a the balance becomes 0 and one Expense of b, its reason
\* annotated with the shortfall, is appended; with b = 0 nothing is appended
\* and the balance stays 0; with a <= b one Expense of a is appended and the
\* balance becomes b - a.
C5_FloorOut ==
    [][SpendStep =>
        LET a == SpendAmount
            b == LedgerBefore.balance
            old == LedgerBefore.records
            new == LedgerAfter.records
        IN  /\ (0 < b /\ b < a) =>
                 /\ LedgerAfter.balance = 0
                 /\ OneExpenseAppended(old, new, b)
                 /\ new[Len(new)].reason = FallbackReason("unspecified", a)
            /\ b = 0 => (new = old /\ LedgerAfter.balance = 0)
            /\ a <= b =>
                 /\ OneExpenseAppended(old, new, a)
                 /\ LedgerAfter.balance = b - a
      ]_vars

\* C5 amended: as C5, with the third case for 0 < a <= b only; a spend tag
\* of amount 0 appends nothing and leaves the balance as it is.
C5_FloorOutPositive ==
    [][SpendStep =>
        LET a == SpendAmount
            b == LedgerBefore.balance
            old == LedgerBefore.records
            new == LedgerAfter.records
        IN  /\ (0 < b /\ b < a) =>
                 /\ LedgerAfter.balance = 0
                 /\ OneExpenseAppended(old, new, b)
                 /\ new[Len(new)].reason = FallbackReason("unspecified", a)
            /\ b = 0 => (new = old /\ LedgerAfter.balance = 0)
            /\ (0 < a /\ a <= b) =>
                 /\ OneExpenseAppended(old, new, a)
                 /\ LedgerAfter.balance = b - a
            /\ a = 0 => (new = old /\ LedgerAfter.balance = b)
      ]_vars

\* C5 witness: a blacklisted user's spend tag of 3 has floored out that
\* user's isolated ledger, which held less, and the real ledger still holds
\* its balance.
C5_Witness ==
    /\ last.op = "on_llm_resp"
    /\ last.ok
    /\ last.text = <<SpendTag(3)>>
    /\ is_blacklisted(blacklist, last.user)
    /\ LET l == iso_files[last.user].money
       IN  /\ l.balance = 0
           /\ l.records # <<>>
           /\ l.records[Len(l.records)].reason =
                  FallbackReason("unspecified", 3)
    /\ manager.balance > 0

\* C8: record_thank_letter succeeds at most once per user and calendar day:
\* once a call for user u has succeeded on day d, every further call for u
\* on day d (direct or through the send_thank_letter command) returns
\* failure and leaves today_bonus, total_bonus, ranking and the day's
\* sender set unchanged.
C8_OncePerUserPerDay ==
    [][( /\ last'.op \in {"record_thank_letter", "send_thank_letter"}
         /\ <<last'.user, today>> \in ghost.sent )
       => ( /\ ~last'.ok
            /\ thank_manager'.today_bonus = thank_manager.today_bonus
            /\ thank_manager'.total_bonus = thank_manager.total_bonus
            /\ thank_manager'.ranking = thank_manager.ranking
            /\ SendersOn(thank_manager', today) =
                   SendersOn(thank_manager, today)
            /\ ghost'.sent = ghost.sent )
      ]_vars

\* C8 witness: a user whose letter was recorded on the first day and again
\* on the second day has been refused a further letter on the second day.
C8_Witness ==
    /\ last.op = "record_thank_letter"
    /\ ~last.ok
    /\ today = 2
    /\ <<last.user, 1>> \in ghost.sent
    /\ <<last.user, 2>> \in ghost.sent

\* C9: processing a response whose acting user is blacklisted leaves the
\* real ledger (balance, savings_balance, records, notes, pending
\* withdrawals), the real inventory and every other user's isolated ledger
\* and inventory unchanged; only that user's own isolated stores may change.
C9_BlacklistedResponseFrame ==
    [][( /\ last'.op = "on_llm_resp"
         /\ is_blacklisted(blacklist, last'.user) )
       => ( /\ manager' = manager
            /\ backpack_manager' = backpack_manager
            /\ \A u \in Users \ {last'.user} : iso_files'[u] = iso_files[u] )
      ]_vars

\* C9 witness: a blacklisted user's response has been processed and has
\* written a transaction and an item to that user's isolated stores, while
\* another blacklisted user has isolated stores of their own.
C9_Witness ==
    /\ last.op = "on_llm_resp"
    /\ last.ok
    /\ is_blacklisted(blacklist, last.user)
    /\ iso_files[last.user].money.records # <<>>
    /\ iso_files[last.user].backpack.shared_items # <<>>
    /\ \E u \in Users \ {last.user} :
          is_blacklisted(blacklist, u) /\ iso_files[u].exists

\* C10: after a user was removed from the blacklist and blacklisted again,
\* the isolated stores made for them at their next access are fresh: the
\* ledger's balance is the real ledger's balance of that moment, its
\* history is empty, and nothing of the earlier isolated balance, records
\* or inventory is left.
C10_FreshAfterReblacklist ==
    [][( /\ last'.op = "view_isolation_data"
         /\ last'.ok
         /\ last'.user \in ghost.removed
         /\ last'.user \notin managers_cache )
       => ( /\ iso_files'[last'.user].money = NewLedger(manager.balance)
            /\ iso_files'[last'.user].backpack = NewBackpack )
      ]_vars

\* C11: the isolated ledger made for a blacklisted user at the first access
\* of their stores holds the real ledger's balance of the moment the user
\* was blacklisted, with empty history, whatever happened to the real
\* ledger between the blacklisting and that first access.
C11_SeededAtBlacklisting ==
    [][( /\ last'.op = "view_isolation_data"
         /\ last'.ok
         /\ ~iso_files[last'.user].exists )
       => ( /\ iso_files'[last'.user].exists
            /\ iso_files'[last'.user].money =
                   NewLedger(ghost.listed[last'.user]) )
      ]_vars

\* C12: an admin income of amount a > 0 applied to the real ledger while a
\* user is blacklisted raises that user's isolated balance by exactly a;
\* for a user whose isolated store has not been made yet the balance before
\* is the real balance the store is seeded with, the one the real ledger
\* had before the income.
C12_IncomeMirroredOnce ==
    [][( /\ last'.op = "admin_add_income"
         /\ last'.ok )
       => \A i \in 1..Len(blacklist) :
             LET x == blacklist[i]
                 before == IF iso_files[x].exists
                           THEN iso_files[x].money.balance
                           ELSE manager.balance
             IN  iso_files'[x].money.balance = before + last'.amount
      ]_vars

\* The step applies an expense of a normal actor to the real ledger: a
\* response of a user who is not blacklisted that holds spend tags only, or
\* the admin expense command
RealExpenseStep ==
    /\ \/ /\ last'.op = "on_llm_resp"
          /\ last'.ok
          /\ ~is_blacklisted(blacklist, last'.user)
          /\ last'.text # <<>>
          /\ \A i \in 1..Len(last'.text) : last'.text[i].kw = {"spend"}
       \/ last'.op = "admin_add_expense" /\ last'.ok
    /\ manager'.balance < manager.balance

\* the amount charged to the real ledger
RealExpenseAmount == manager.balance - manager'.balance

SharedTagStep(kind) ==
    /\ last'.op = "on_llm_resp"
    /\ last'.ok
    /\ ~is_blacklisted(blacklist, last'.user)
    /\ Len(last'.text) = 1
    /\ last'.text[1].kw = {kind}
    /\ last'.text[1].name # NoName

\* C14: when a normal user's store tag adds an item to the real shared
\* inventory, the item is added to the shared slots of every currently
\* blacklisted user's isolated inventory as well; when a normal user's use
\* tag removes an item from the real shared inventory, the same removal is
\* made on every isolated inventory (where an item matches).
C14_StoreAndUseMirrored ==
    [][/\ ( /\ SharedTagStep("store")
            /\ Len(backpack_manager'.shared_items) =
                   Len(backpack_manager.shared_items) + 1 )
          => \A i \in 1..Len(blacklist) :
                iso_files'[blacklist[i]].backpack.shared_items =
                    Append(iso_files[blacklist[i]].backpack.shared_items,
                           [name |-> last'.text[1].name,
                            description |-> "desc"])
       /\ ( /\ SharedTagStep("use")
            /\ Len(backpack_manager'.shared_items) =
                   Len(backpack_manager.shared_items) - 1 )
          => \A i \in 1..Len(blacklist) :
                iso_files'[blacklist[i]].backpack =
                    use_shared_item(iso_files[blacklist[i]].backpack,
                                    last'.text[1].name).b
      ]_vars

\* new is old after set_balance(v): the balance is v and exactly one
\* adjustment transaction is appended, of amount |v - old balance|, an
\* Income when v >= old balance and an Expense otherwise
Adjusted(old, new, v) ==
    /\ new.balance = v
    /\ new.records # <<>>
    /\ LET rec == new.records[Len(new.records)]
       IN  /\ rec.type = IF v >= old.balance THEN "income" ELSE "expense"
           /\ rec.amount = Abs(v - old.balance)
           /\ rec.reason = "[adjust] r"
    /\ \E k \in 0..Len(old.records) :
          /\ Len(new.records) = Len(old.records) - k + 1
          /\ \A i \in 1..(Len(new.records) - 1) :
                new.records[i] = old.records[k + i]
    /\ new.savings_balance = old.savings_balance
    /\ new.pending_withdrawals = old.pending_withdrawals

\* C15: set_balance(v) with v >= 0 always succeeds, sets the balance to v
\* and appends exactly one adjustment transaction of amount |v - old
\* balance|, Income when v >= old balance and Expense otherwise; issued by
\* the admin command it is mirrored, so that afterwards the real ledger and
\* every blacklisted user's isolated ledger have balance v.
C15_SetBalance ==
    [][/\ (last'.op = "set_balance" /\ last'.amount >= 0)
          => (last'.ok /\ Adjusted(manager, manager', last'.amount))
       /\ (last'.op = "admin_set_balance" /\ last'.ok)
          => /\ last'.amount >= 0
             /\ Adjusted(manager, manager', last'.amount)
             /\ \A i \in 1..Len(blacklist) :
                   LET x == blacklist[i]
                   IN  /\ iso_files'[x].exists
                       /\ iso_files'[x].money.balance = last'.amount
                       /\ iso_files[x].exists =>
                             Adjusted(iso_files[x].money, iso_files'[x].money,
                                      last'.amount)
      ]_vars

\* C15 witness: the admin command has set the balance to 2 while two users
\* were blacklisted, one of them with an isolated balance of 1 before; the
\* real ledger and both isolated ledgers hold 2, and that user's ledger
\* ends with an Income adjustment of 1.
C15_Witness ==
    /\ last.op = "admin_set_balance"
    /\ last.ok
    /\ last.amount = 2
    /\ manager.balance = 2
    /\ Len(blacklist) = 2
    /\ \A i \in 1..Len(blacklist) :
          iso_files[blacklist[i]].money.balance = 2
    /\ \E i \in 1..Len(blacklist) :
          LET recs == iso_files[blacklist[i]].money.records
          IN  /\ Len(recs) >= 2
              /\ recs[Len(recs)].type = "income"
              /\ recs[Len(recs)].amount = 1

\* C16: for every response handed to on_llm_resp, the text left in the
\* response when the handler is done holds no bracketed span of any tag
\* kind, on every path through the handler.
C16_NoTagLeft ==
    last.op = "on_llm_resp" =>
        \A i \in 1..Len(last.out) : last.out[i].kw \cap Kinds = {}

\* C17: a response all of whose tags lack their required field (spend,
\* refund, apply-withdraw without an amount; store, gift, use, use-gift
\* without a name) changes no ledger, inventory or pending-withdrawal
\* state, real or isolated; the only thing the handler may do is make the
\* acting blacklisted user's isolated stores on their first access, seeded
\* and empty.
C17_MalformedTagsChangeNothing ==
    [][( /\ last'.op = "on_llm_resp"
         /\ last'.text # <<>>
         /\ \A i \in 1..Len(last'.text) :
               /\ last'.text[i].amount = NoAmount
               /\ Strip(last'.text[i].name) = <<>> )
       => ( /\ manager' = manager
            /\ backpack_manager' = backpack_manager
            /\ \A u \in Users :
                  IF iso_files[u].exists \/ ~iso_files'[u].exists
                  THEN iso_files'[u] = iso_files[u]
                  ELSE /\ u = last'.user
                       /\ iso_files'[u].money = NewLedger(manager.balance)
                       /\ iso_files'[u].backpack = NewBackpack )
      ]_vars


\* The acting user's resolved inventory before and after the step
BackpackBefore ==
    Backpack(get_managers_for_user(Here(<<>>), last'.user), last'.user,
             is_blacklisted(blacklist, last'.user))
BackpackAfter ==
    IF is_blacklisted(blacklist, last'.user)
    THEN iso_files'[last'.user].backpack ELSE backpack_manager'

\* The last tag of the kind in the text (a tag with no field when the text
\* holds none)
LastTag(text, kind) ==
    LET m == SelectSeq(text, LAMBDA sp : sp.kw = {kind})
    IN  IF m = <<>> THEN MalformedTag(kind) ELSE m[Len(m)]

\* The names of the tags that are exactly of the kinds kw, in text order
TagNames(text, kw) ==
    LET m == SelectSeq(text, LAMBDA sp : sp.kw = kw /\ sp.name # NoName)
    IN  [i \in 1..Len(m) |-> Strip(m[i].name)]

\* use_user_item for each of the names in turn
RECURSIVE AllUsed(_, _, _)
AllUsed(b, user_id, names) ==
    IF names = <<>> THEN b
    ELSE AllUsed(use_user_item(b, user_id, Head(names)).b, user_id,
                 Tail(names))

\* add_user_gift for each of the names in turn
RECURSIVE AllGiven(_, _, _, _)
AllGiven(b, max_user_slots, user_id, names) ==
    IF names = <<>> THEN b
    ELSE AllGiven(add_user_gift(b, max_user_slots, user_id, Head(names),
                                "desc", user_id).b,
                  max_user_slots, user_id, Tail(names))

\* The step is the processing of a response made of spend, store, refund,
\* apply-withdraw, gift and use-gift tags
SeveralTagsStep ==
    /\ last'.op = "on_llm_resp"
    /\ last'.ok
    /\ \A i \in 1..Len(last'.text) :
          last'.text[i].kw \in {{"spend"}, {"store"}, {"refund"},
                                {"withdraw"}, {"gift"}, {"usegift", "gift"}}

\* C18: a response applies at most one spend, one store, one refund and one
\* apply-withdraw action, and the tag it honours is the last of its kind in
\* the text (the balance moves by the last spend and the last refund only,
\* the shared slots change as add_shared_item of the last store tag's name
\* does, at most one request is appended and it carries the last
\* apply-withdraw amount), while every gift and every use-gift tag is
\* applied, in text order (the user's slots are those after use_user_item
\* for each use-gift name and add_user_gift for each gift name in turn).
C18_LastOfKindAllGifts ==
    [][SeveralTagsStep =>
        LET text == last'.text
            user_id == last'.user
            is_isolated == is_blacklisted(blacklist, user_id)
            spend == LastTag(text, "spend").amount
            refund == LastTag(text, "refund").amount
            withdraw == LastTag(text, "withdraw").amount
            store == LastTag(text, "store").name
            b == LedgerBefore.balance
            spent == IF spend = NoAmount THEN 0
                     ELSE IF spend <= b THEN spend ELSE b
            refunded == IF refund = NoAmount THEN 0 ELSE refund
            old == LedgerBefore.pending_withdrawals
            new == LedgerAfter.pending_withdrawals
        IN  /\ LedgerAfter.balance = b - spent + refunded
            /\ BackpackAfter.shared_items =
                   IF store = NoName THEN BackpackBefore.shared_items
                   ELSE add_shared_item(BackpackBefore,
                            SharedSlots(is_isolated), Strip(store),
                            "desc").b.shared_items
            /\ IF /\ ~is_isolated
                  /\ withdraw # NoAmount
                  /\ 0 < withdraw
                  /\ withdraw <= LedgerBefore.savings_balance
               THEN /\ Len(new) = Len(old) + 1
                    /\ SubSeq(new, 1, Len(old)) = old
                    /\ new[Len(new)].amount = withdraw
                    /\ new[Len(new)].status = "pending"
               ELSE new = old
            /\ BackpackAfter.user_slots[user_id] =
                   AllGiven(AllUsed(BackpackBefore, user_id,
                                    TagNames(text, {"usegift", "gift"})),
                            UserSlots(is_isolated), user_id,
                            TagNames(text, {"gift"})).user_slots[user_id]
      ]_vars


\* The step is the processing of a response that holds one tag
OneTagStep ==
    /\ last'.op = "on_llm_resp"
    /\ last'.ok
    /\ Len(last'.text) = 1

\* C19: a well-formed tag is dispatched to the handler of its own kind,
\* whatever keyword its field text holds: a refund tag with a positive
\* amount adds the amount to the acting user's resolved balance, and a
\* store tag with a name changes the acting user's resolved shared slots
\* as add_shared_item of the name does.
C19_DispatchedToOwnKind ==
    [][OneTagStep =>
        LET sp == last'.text[1]
            is_isolated == is_blacklisted(blacklist, last'.user)
        IN  /\ ("refund" \in sp.kw /\ sp.amount # NoAmount /\ sp.amount > 0)
                 => LedgerAfter.balance = LedgerBefore.balance + sp.amount
            /\ ("store" \in sp.kw /\ Strip(sp.name) # <<>>)
                 => BackpackAfter.shared_items =
                        add_shared_item(BackpackBefore,
                            SharedSlots(is_isolated), Strip(sp.name),
                            "desc").b.shared_items
      ]_vars


\* The step is the processing of a response that holds one use-gift tag
UseGiftStep ==
    /\ OneTagStep
    /\ "usegift" \in last'.text[1].kw

\* C20: a use-gift tag is applied as use_user_item on the acting user's
\* exclusive slots and on nothing else: the shared slots of the real
\* inventory and of every isolated inventory stay as they are (an isolated
\* inventory made in the step is empty), and so do the other users' slots.
C20_UseGiftOnlyOwnSlots ==
    [][UseGiftStep =>
        LET user_id == last'.user
            gift_name == Strip(last'.text[1].name)
        IN  /\ BackpackAfter.user_slots[user_id] =
                   use_user_item(BackpackBefore, user_id,
                                 gift_name).b.user_slots[user_id]
            /\ backpack_manager'.shared_items = backpack_manager.shared_items
            /\ \A u \in Users :
                  /\ iso_files'[u].backpack.shared_items =
                         iso_files[u].backpack.shared_items
                  /\ u # user_id =>
                        /\ backpack_manager'.user_slots[u] =
                               backpack_manager.user_slots[u]
                        /\ iso_files'[u].backpack = iso_files[u].backpack
      ]_vars

\* C20 witness: a use-gift tag whose name holds the letters of the use
\* keyword has taken the user's gift out of the exclusive slots while the
\* shared inventory still holds the item of the same name.
C20_Witness ==
    /\ last.op = "on_llm_resp"
    /\ last.ok
    /\ last.text = <<UseGiftAboutUse(<<"m">>)>>
    /\ backpack_manager.user_slots[last.user] = <<>>
    /\ \E i \in 1..Len(backpack_manager.shared_items) :
          backpack_manager.shared_items[i].name = <<"m">>
    /\ \E i \in 1..Len(ghost.applied) :
          ghost.applied[i] = UniqueKey(2, <<GiftTag(<<"m">>)>>)


\* C21: in every reachable state the history of every ledger holds at most
\* max_records entries (MaxRecords for the real ledger, IsoMaxRecords for an
\* isolated one).
C21_HistoryBounded ==
    /\ Len(manager.records) <= MaxRecords
    /\ \A u \in Users : Len(iso_files[u].money.records) <= IsoMaxRecords

\* new is old with one record of the type and amount appended at its end
\* and nothing else changed in the history
OneAppended(old, new, type, amount) ==
    /\ Len(new) = Len(old) + 1
    /\ SubSeq(new, 1, Len(old)) = old
    /\ new[Len(new)].type = type
    /\ new[Len(new)].amount = amount

\* C22: deposit_to_savings(a) fails exactly when a <= 0 or a > balance and
\* withdraw_from_savings(a) exactly when a <= 0 or a > savings_balance; a
\* failed call changes nothing; a successful deposit moves a from balance
\* to savings_balance and appends one Expense of a, a successful withdraw
\* moves a back and appends one Income of a, and balance + savings_balance
\* stays what it was.
C22_AtomicTransfers ==
    [][LET a == last'.amount
       IN  /\ last'.op = "deposit_to_savings" =>
                /\ last'.ok <=> ~(a <= 0 \/ a > manager.balance)
                /\ ~last'.ok => manager' = manager
                /\ last'.ok =>
                     /\ manager'.balance = manager.balance - a
                     /\ manager'.savings_balance = manager.savings_balance + a
                     /\ OneAppended(manager.records, manager'.records,
                                    "expense", a)
                     /\ manager'.pending_withdrawals =
                            manager.pending_withdrawals
           /\ last'.op = "withdraw_from_savings" =>
                /\ last'.ok <=> ~(a <= 0 \/ a > manager.savings_balance)
                /\ ~last'.ok => manager' = manager
                /\ last'.ok =>
                     /\ manager'.balance = manager.balance + a
                     /\ manager'.savings_balance = manager.savings_balance - a
                     /\ OneAppended(manager.records, manager'.records,
                                    "income", a)
                     /\ manager'.pending_withdrawals =
                            manager.pending_withdrawals
      ]_vars

\* C22 witness: a withdrawal from savings has just moved money back after a
\* deposit, and a part of the deposit is still in savings.
C22_Witness ==
    /\ last.op = "withdraw_from_savings"
    /\ last.ok
    /\ manager.savings_balance = 1
    /\ manager.balance = 1
    /\ Len(manager.records) = 2

\* C23: apply_withdrawal(a) fails and changes nothing when a <= 0 or
\* a > savings_balance; otherwise it appends one Pending request of a,
\* leaves balance, savings_balance and records as they are, and the id of
\* the new request is the id of no other stored request.
C23_ApplyWithdrawal ==
    [][last'.op = "apply_withdrawal" =>
        LET a == last'.amount
            old == manager.pending_withdrawals
            new == manager'.pending_withdrawals
        IN  /\ last'.ok <=> ~(a <= 0 \/ a > manager.savings_balance)
            /\ ~last'.ok => manager' = manager
            /\ last'.ok =>
                 /\ Len(new) = Len(old) + 1
                 /\ SubSeq(new, 1, Len(old)) = old
                 /\ new[Len(new)].amount = a
                 /\ new[Len(new)].status = "pending"
                 /\ manager'.balance = manager.balance
                 /\ manager'.savings_balance = manager.savings_balance
                 /\ manager'.records = manager.records
                 /\ \A i \in 1..Len(old) : old[i].id # new[Len(new)].id
      ]_vars

\* C24: add_income(a) fails exactly when a <= 0, add_expense(a) exactly
\* when a <= 0 or a > balance, and a failed call changes nothing; a
\* successful call moves the balance by exactly a (up for income, down for
\* expense) and appends one transaction of a of its kind (the oldest
\* records may have been evicted by the history bound).
C24_IncomeExpense ==
    [][LET a == last'.amount
       IN  /\ last'.op = "add_income" =>
                /\ last'.ok <=> ~(a <= 0)
                /\ ~last'.ok => manager' = manager
                /\ last'.ok =>
                     /\ manager'.balance = manager.balance + a
                     /\ manager'.records # <<>>
                     /\ manager'.records[Len(manager'.records)].type = "income"
                     /\ manager'.records[Len(manager'.records)].amount = a
           /\ last'.op = "add_expense" =>
                /\ last'.ok <=> ~(a <= 0 \/ a > manager.balance)
                /\ ~last'.ok => manager' = manager
                /\ last'.ok =>
                     /\ manager'.balance = manager.balance - a
                     /\ OneExpenseAppended(manager.records, manager'.records,
                                           a)
           /\ last'.op \in {"add_income", "add_expense"} =>
                /\ manager'.savings_balance = manager.savings_balance
                /\ manager'.pending_withdrawals = manager.pending_withdrawals
      ]_vars

\* C24 witness: add_expense of more than a positive balance has failed and
\* the balance is what it was.
C24_Witness ==
    /\ last.op = "add_expense"
    /\ ~last.ok
    /\ last.amount = 2
    /\ manager.balance = 1
    /\ manager.records # <<>>

\* C25: every transaction in the history of every ledger has an amount > 0.
C25_AmountsPositive ==
    \A l \in Ledgers : \A i \in 1..Len(l.records) : l.records[i].amount > 0


\* The ranking entries of the user
KeysOf(d, sender_id) ==
    SelectSeq(d.ranking, LAMBDA e : e.sender_id = sender_id)

\* C28: in every reachable state each user id is the id part of at most one
\* ranking key, and a commendation recorded for a user adds one to the
\* user's count and leaves the user with the one key made of the id and
\* the display name of that commendation (under a new display name the old
\* key is gone and the new key carries the old count plus one).
C28_OneRankingKeyPerUser ==
    /\ [](\A u \in Users : Len(KeysOf(thank_manager, u)) <= 1)
    /\ [][( /\ last'.op \in {"record_thank_letter", "send_thank_letter"}
            /\ last'.ok )
          => LET old == KeysOf(thank_manager, last'.user)
                 new == KeysOf(thank_manager', last'.user)
             IN  /\ Len(new) = 1
                 /\ new[1].count =
                        (IF old = <<>> THEN 0 ELSE old[1].count) + 1
                 /\ \A u \in Users \ {last'.user} :
                       KeysOf(thank_manager', u) = KeysOf(thank_manager, u)
         ]_vars

\* C28 witness: a user with a count under one display name has sent a
\* commendation under another, and the one key of the user carries the new
\* name and the count 2.
C28_Witness ==
    /\ last.op = "record_thank_letter"
    /\ last.ok
    /\ KeysOf(thank_manager, last.user) =
           <<[sender_id |-> last.user, sender_name |-> "n2", count |-> 2]>>
    /\ <<last.user, 1>> \in ghost.sent


\* trim, lower-case, spaces removed
Folded(name) ==
    LET kept == SelectSeq(name, LAMBDA c : c # " ")
    IN  [i \in 1..Len(kept) |->
            IF kept[i] = "A" THEN "a" ELSE IF kept[i] = "B" THEN "b"
            ELSE kept[i]]

\* the name of the item equals the query exactly or after normalisation
Matching(item, name) == item.name = name \/ Folded(item.name) = Folded(name)

\* new is old without its first item that matches the name, or old itself
\* (and ok is FALSE) when no item matches
FirstMatchRemoved(old, new, name, ok) ==
    IF \A i \in 1..Len(old) : ~Matching(old[i], name)
    THEN ~ok /\ new = old
    ELSE /\ ok
         /\ \E i \in 1..Len(old) :
               /\ Matching(old[i], name)
               /\ \A j \in 1..(i - 1) : ~Matching(old[j], name)
               /\ new = SubSeq(old, 1, i - 1) \o SubSeq(old, i + 1, Len(old))

\* C29: use_shared_item(name) removes from the shared slots, and
\* use_user_item(user, name) from the user's slots, exactly the first item
\* in insertion order whose name equals the query exactly or after
\* normalisation, leaving every other item and the order as they are; with
\* no matching item the call fails and changes nothing.
C29_FirstMatchRemoved ==
    [][/\ last'.op = "use_shared_item" =>
            /\ FirstMatchRemoved(backpack_manager.shared_items,
                                 backpack_manager'.shared_items,
                                 last'.name, last'.ok)
            /\ backpack_manager'.user_slots = backpack_manager.user_slots
       /\ last'.op = "use_user_item" =>
            /\ FirstMatchRemoved(backpack_manager.user_slots[last'.user],
                                 backpack_manager'.user_slots[last'.user],
                                 last'.name, last'.ok)
            /\ backpack_manager'.shared_items = backpack_manager.shared_items
            /\ \A u \in Users \ {last'.user} :
                  backpack_manager'.user_slots[u] =
                      backpack_manager.user_slots[u]
      ]_vars

\* C29 witness: the query a has taken the item A, the first of two items
\* that match it, and left the item a behind it.
C29_Witness ==
    /\ last.op = "use_shared_item"
    /\ last.ok
    /\ last.name = <<"a">>
    /\ backpack_manager.shared_items =
           <<[name |-> <<"a">>, description |-> "d"]>>
    /\ steps = 3


\* C30: on_llm_resp never ends in an exception: after every delivery the
\* handler has completed, and a delivery that was not a duplicate has the
\* cleaned text (no tag span) in the response.
C30_NeverRaises ==
    last.op = "on_llm_resp" =>
        /\ ~last.exc
        /\ last.ok => \A i \in 1..Len(last.out) : last.out[i].kw = {}


C27_RestartRoundTrip ==
    [][last'.op = "restart" =>
          /\ manager' = manager
          /\ backpack_manager' = backpack_manager
          /\ thank_manager' = thank_manager
          /\ blacklist' = blacklist
          /\ iso_files' = iso_files
      ]_vars

\* C31: a response of a user who is not blacklisted that holds one refund
\* tag or one gift tag changes the real stores only: the refund raises the
\* real balance and the gift fills a user slot of the real inventory, and
\* the isolated ledger and inventory of every blacklisted user are as
\* before.
C31_RefundAndGiftNotMirrored ==
    [][( /\ last'.op = "on_llm_resp"
         /\ last'.ok
         /\ ~is_blacklisted(blacklist, last'.user)
         /\ Len(last'.text) = 1
         /\ last'.text[1].kw \in {{"refund"}, {"gift"}} )
       => /\ iso_files' = iso_files
          /\ last'.text[1].kw = {"refund"}
               => /\ manager'.balance =
                         manager.balance + last'.text[1].amount
                  /\ backpack_manager' = backpack_manager
          /\ last'.text[1].kw = {"gift"}
               => /\ manager' = manager
                  /\ backpack_manager'.shared_items =
                         backpack_manager.shared_items
      ]_vars

\* The sum of the amounts of the recorded commendations whose date is one
\* of the given days
RECURSIVE BonusSum(_, _)
BonusSum(recorded, days) ==
    IF recorded = <<>> THEN 0
    ELSE (IF Head(recorded).date \in days THEN Head(recorded).amount ELSE 0)
         + BonusSum(Tail(recorded), days)

\* C32: after can_send_today, record_thank_letter or get_today_bonus on day
\* d the stored date is d, today_bonus is the sum of the amounts recorded on
\* day d (zero when none was), total_bonus is the sum of all the amounts
\* recorded, and no entry of daily_senders has a date more than 7 days
\* before d.
C32_DailyRollover ==
    last.op \in {"can_send_today", "record_thank_letter", "get_today_bonus"}
    =>     /\ thank_manager.today_date = today
           /\ thank_manager.today_bonus = BonusSum(ghost.recorded, {today})
           /\ thank_manager.total_bonus = BonusSum(ghost.recorded, 1..FarDay)
           /\ \A i \in 1..Len(thank_manager.daily_senders) :
                 thank_manager.daily_senders[i].date >= today - RetentionDays

\* C32 witness: commendations were recorded on day 1 and on day 2, and on
\* day 9 another one is recorded: the entry of day 1 has been dropped, the
\* one of day 2, seven days old, is kept, and the bonus of the day is less
\* than the total.
C32_Witness ==
    /\ last.op = "record_thank_letter"
    /\ last.ok
    /\ today = 2 + RetentionDays
    /\ Len(ghost.recorded) = 3
    /\ ghost.recorded[1].date = 1
    /\ SendersOn(thank_manager, 1) = <<>>
    /\ SendersOn(thank_manager, 2) # <<>>
    /\ thank_manager.today_bonus < thank_manager.total_bonus

\* C33: the blacklist never holds a user twice; add_to_blacklist of a user
\* who is on it and remove_from_blacklist of a user who is not return
\* failure and change neither the blacklist nor an isolated store; add of a
\* user who is not on it and remove of a user who is on it succeed and put
\* the user on it, respectively take the user off it.
C33_BlacklistStates ==
    /\ [](\A i, j \in 1..Len(blacklist) :
              i # j => blacklist[i] # blacklist[j])
    /\ [][( last'.op = "add_to_blacklist" =>
               IF is_blacklisted(blacklist, last'.user)
               THEN /\ ~last'.ok
                    /\ blacklist' = blacklist
                    /\ iso_files' = iso_files
                    /\ managers_cache' = managers_cache
               ELSE /\ last'.ok
                    /\ is_blacklisted(blacklist', last'.user) )
          /\ ( last'.op = "remove_from_blacklist" =>
               IF ~is_blacklisted(blacklist, last'.user)
               THEN /\ ~last'.ok
                    /\ blacklist' = blacklist
                    /\ iso_files' = iso_files
                    /\ managers_cache' = managers_cache
               ELSE /\ last'.ok
                    /\ ~is_blacklisted(blacklist', last'.user) )
        ]_vars

\* C33 witness: x was blacklisted, got an isolated store and was taken off
\* the blacklist; a second removal of x has just failed.
C33_Witness ==
    /\ last.op = "remove_from_blacklist"
    /\ ~last.ok
    /\ last.user \in ghost.removed
    /\ iso_files[last.user].exists
    /\ ~is_blacklisted(blacklist, last.user)

\* C34: resolving the stores of a user who is not blacklisted makes and
\* changes no isolated store, and a response of such a user leaves the
\* user's own isolated files alone; resolving those of a blacklisted user
\* makes the isolated pair on the first access (a ledger with the real
\* balance of that moment and an empty inventory) and on every later access
\* gives the pair as it is, whatever the real balance has become; a
\* response of a blacklisted user then leaves the real ledger and inventory
\* unchanged.
C34_ResolveOnce ==
    [][/\ ( last'.op = "add_context_prompt" =>
              IF ~is_blacklisted(blacklist, last'.user)
              THEN /\ iso_files' = iso_files
                   /\ managers_cache' = managers_cache
                   /\ manager' = manager
                   /\ backpack_manager' = backpack_manager
              ELSE /\ last'.user \in managers_cache'
                   /\ manager' = manager
                   /\ backpack_manager' = backpack_manager
                   /\ iso_files' =
                        IF iso_files[last'.user].exists THEN iso_files
                        ELSE [iso_files EXCEPT ![last'.user] =
                                 [exists |-> TRUE,
                                  money |-> NewLedger(manager.balance),
                                  backpack |-> NewBackpack]] )
       /\ ( last'.op = "on_llm_resp" =>
              IF is_blacklisted(blacklist, last'.user)
              THEN /\ manager' = manager
                   /\ backpack_manager' = backpack_manager
              ELSE iso_files'[last'.user] = iso_files[last'.user] )
      ]_vars

\* C34 witness: x's isolated pair was made, the real balance has moved
\* since without any mirroring, and x's stores have just been resolved
\* again: the isolated ledger is still the one it was made as.
C34_Witness ==
    /\ last.op = "add_context_prompt"
    /\ last.user = "x"
    /\ is_blacklisted(blacklist, "x")
    /\ iso_files["x"].exists
    /\ iso_files["x"].money.records = <<>>
    /\ iso_files["x"].money.balance # manager.balance
    /\ ghost.sent # {}

\* The last m entries of a list of notes (all of them when there are fewer)
LastEntries(notes, m) ==
    IF Len(notes) > m THEN SubSeq(notes, Len(notes) - m + 1, Len(notes))
    ELSE notes

\* C35: add_note(text, m) with a text that is not blank succeeds and leaves
\* the last m entries of the previous notes followed by the text (stripped
\* of its surrounding spaces), so there are never more than m notes;
\* add_note with a blank text and delete_note with an index outside
\* 1..len(notes) fail and leave the notes as they were; a note tag in a
\* response is taken out of the text and leaves the notes as they were.
C35_Notes ==
    [][/\ ( last'.op = "add_note" =>
              IF Strip(last'.name) # <<>>
              THEN /\ last'.ok
                   /\ manager'.notes =
                        LastEntries(Append(manager.notes, Strip(last'.name)),
                                    last'.amount)
                   /\ Len(manager'.notes) <= last'.amount
              ELSE /\ ~last'.ok
                   /\ manager'.notes = manager.notes )
       /\ ( ( /\ last'.op = "delete_note"
              /\ last'.amount \notin 1..Len(manager.notes) )
            => /\ ~last'.ok
               /\ manager'.notes = manager.notes )
       /\ ( ( /\ last'.op = "on_llm_resp"
              /\ Matches(last'.text, "note") # <<>> )
            => /\ manager'.notes = manager.notes
               /\ ( last'.ok => Matches(last'.out, "note") = <<>> ) )
      ]_vars

\* The place of the latest recording of a key among the responses that
\* passed the duplicate check
LatestRecording(applied, key) ==
    LET hits == {i \in 1..Len(applied) : applied[i] = key}
    IN  IF hits = {} THEN 0 ELSE CHOOSE i \in hits : \A j \in hits : j <= i

\* C36: after a response has been handled the seen-set holds no more keys
\* than its bound, it holds the key of that response, and every key that
\* was discarded had been recorded before every key that was kept.
C36_SeenSetEvictsOldest ==
    [][( /\ last'.op = "on_llm_resp"
         /\ last'.ok )
       => LET key == UniqueKey(last'.mid, last'.text)
              discarded == (processed_message_ids \cup {key})
                               \ processed_message_ids'
          IN  /\ Cardinality(processed_message_ids') <= SeenLimit
              /\ key \in processed_message_ids'
              /\ \A old \in discarded, kept \in processed_message_ids' :
                    LatestRecording(ghost'.applied, old)
                        < LatestRecording(ghost'.applied, kept)
      ]_vars

\* C38: the admin's deposit command with an amount a, 0 < a <= balance,
\* succeeds and moves exactly a from the balance to the savings balance
\* (their sum is unchanged); when the command reports failure, the balance,
\* the savings balance and the history are as they were before it.
C38_DepositCommand ==
    [][last'.op = "admin_deposit_to_savings" =>
          /\ ( /\ is_admin(last'.user)
               /\ 0 < last'.amount
               /\ last'.amount <= manager.balance )
             => /\ last'.ok
                /\ manager'.balance = manager.balance - last'.amount
                /\ manager'.savings_balance =
                       manager.savings_balance + last'.amount
          /\ ~last'.ok
             => /\ manager'.balance = manager.balance
                /\ manager'.savings_balance = manager.savings_balance
                /\ manager'.records = manager.records
      ]_vars

\* The history new is the history old with one record appended that
\* accounts for the change of the balance from b0 to b1: an income of the
\* increase or an expense of the decrease (the front of the history may have
\* been cut off)
Accounted(old, b0, new, b1) ==
    /\ new # <<>>
    /\ LET r == new[Len(new)]
           all == Append(old, r)
       IN  /\ \E k \in 1..Len(all) : new = SubSeq(all, k, Len(all))
           /\ IF b1 > b0 THEN r.type = "income" /\ r.amount = b1 - b0
              ELSE r.type = "expense" /\ r.amount = b0 - b1

\* C39: a step that changes the balance of a ledger, the real one or an
\* isolated one, appends to the history of that ledger one record that
\* accounts for the change; this holds for the reward of a commendation as
\* for every other operation.
C39_EveryChangeRecorded ==
    [][/\ manager'.balance # manager.balance
            => Accounted(manager.records, manager.balance,
                         manager'.records, manager'.balance)
       /\ \A u \in Users :
            ( /\ iso_files[u].exists
              /\ iso_files'[u].money.balance # iso_files[u].money.balance )
            => Accounted(iso_files[u].money.records,
                         iso_files[u].money.balance,
                         iso_files'[u].money.records,
                         iso_files'[u].money.balance)
      ]_vars

\* C40: in every reachable state every isolated ledger has savings balance
\* 0 and no withdrawal request, and a response of a blacklisted user that
\* holds an apply-withdraw tag adds no withdrawal request to any ledger,
\* the real one or an isolated one.
C40_NoSavingsInIsolation ==
    /\ [](\A u \in Users :
              /\ iso_files[u].money.savings_balance = 0
              /\ iso_files[u].money.pending_withdrawals = <<>>)
    /\ [][( /\ last'.op = "on_llm_resp"
            /\ is_blacklisted(blacklist, last'.user)
            /\ Matches(last'.text, "withdraw") # <<>> )
          => /\ manager'.pending_withdrawals = manager.pending_withdrawals
             /\ manager'.savings_balance = manager.savings_balance
             /\ \A u \in Users :
                   iso_files'[u].money.pending_withdrawals = <<>>
         ]_vars

\* C40 witness: the real ledger has savings, and a response of the
\* blacklisted user x that asks to withdraw 1 of them has been processed
\* against x's isolated stores.
C40_Witness ==
    /\ last.op = "on_llm_resp"
    /\ last.ok
    /\ last.user = "x"
    /\ is_blacklisted(blacklist, "x")
    /\ Matches(last.text, "withdraw") # <<>>
    /\ Matches(last.out, "withdraw") = <<>>
    /\ manager.savings_balance >= 1
    /\ iso_files["x"].exists

=============================================================================
